---------------------------- MODULE Spec2Model ----------------------------
(***************************************************************************)
(* A model of iced's Scrollable widget (widget/src/scrollable.rs): the     *)
(* Offset model, the scrollbar geometry, the persistent State and the      *)
(* on_event handler, with the programmatic snap_to / scroll_to operations. *)
(*                                                                         *)
(* f32 values are modelled as exact rationals [n, d] (d > 0, lowest        *)
(* terms), extended with NaN (0/0), +Inf (1/0) and -Inf (-1/0) so that the *)
(* divisions of the source keep their IEEE results.  Rounding and the sign *)
(* of zero are not modelled.                                               *)
(***************************************************************************)
EXTENDS Integers, Sequences, FiniteSets, TLC

(***************************************************************************)
(* A local binding of the source, `let name = value; body`: the value is   *)
(* computed once and handed to the body.                                   *)
(***************************************************************************)
Let(value, body(_)) == body(value)

(***************************************************************************)
(* f32 arithmetic                                                          *)
(***************************************************************************)
Abs(i) == IF i < 0 THEN -i ELSE i

Sgn(i) == IF i < 0 THEN -1 ELSE IF i > 0 THEN 1 ELSE 0

RECURSIVE GCD(_, _)
GCD(a, b) == IF b = 0 THEN a ELSE GCD(b, a % b)

\* n/d in lowest terms, d > 0 (d # 0 is required)
Norm(n, d) ==
    LET g == GCD(Abs(n), Abs(d))
        s == IF d < 0 THEN -1 ELSE 1
    IN  IF d = 1 THEN [n |-> n, d |-> 1]
        ELSE [n |-> (s * n) \div g, d |-> (s * d) \div g]

R(i) == [n |-> i, d |-> 1]

Q(n, d) == Norm(n, d)

NaN == [n |-> 0, d |-> 0]

Inf(s) == [n |-> s, d |-> 0]

IsFinite(a) == a.d # 0

is_nan(a) == a.d = 0 /\ a.n = 0

Neg(a) == [n |-> -a.n, d |-> a.d]

Add(a, b) ==
    IF IsFinite(a) /\ IsFinite(b) THEN Norm(a.n * b.d + b.n * a.d, a.d * b.d)
    ELSE IF is_nan(a) \/ is_nan(b) THEN NaN
    ELSE IF IsFinite(a) THEN b
    ELSE IF IsFinite(b) THEN a
    ELSE IF a.n = b.n THEN a ELSE NaN

Sub(a, b) == Add(a, Neg(b))

Mul(a, b) ==
    IF IsFinite(a) /\ IsFinite(b) THEN Norm(a.n * b.n, a.d * b.d)
    ELSE IF is_nan(a) \/ is_nan(b) THEN NaN
    ELSE IF a.n = 0 \/ b.n = 0 THEN NaN
    ELSE Inf(Sgn(a.n) * Sgn(b.n))

Div(a, b) ==
    IF IsFinite(a) /\ IsFinite(b)
    THEN IF b.n # 0 THEN Norm(a.n * b.d, a.d * b.n)
         ELSE IF a.n = 0 THEN NaN ELSE Inf(Sgn(a.n))
    ELSE IF is_nan(a) \/ is_nan(b) THEN NaN
    ELSE IF ~IsFinite(a) /\ ~IsFinite(b) THEN NaN
    ELSE IF IsFinite(a) THEN R(0)
    ELSE Inf(Sgn(a.n) * (IF b.n < 0 THEN -1 ELSE 1))

\* a < b; every comparison with NaN is false
Lt(a, b) ==
    IF is_nan(a) \/ is_nan(b) THEN FALSE
    ELSE IF IsFinite(a) /\ IsFinite(b) THEN a.n * b.d < b.n * a.d
    ELSE IF IsFinite(a) THEN b.n > 0
    ELSE IF IsFinite(b) THEN a.n < 0
    ELSE a.n < b.n

Le(a, b) == ~is_nan(a) /\ ~is_nan(b) /\ ~Lt(b, a)

\* f32::max and f32::min return the other operand when one is NaN
Max(a, b) == IF is_nan(a) THEN b ELSE IF is_nan(b) THEN a ELSE IF Lt(a, b) THEN b ELSE a

Min(a, b) == IF is_nan(a) THEN b ELSE IF is_nan(b) THEN a ELSE IF Lt(b, a) THEN b ELSE a

\* f32::clamp keeps a NaN receiver
Clamp(x, lo, hi) == IF Lt(x, lo) THEN lo ELSE IF Lt(hi, x) THEN hi ELSE x

FAbs(a) == [n |-> Abs(a.n), d |-> a.d]


(***************************************************************************)
(* Core geometry (Point, Vector, Rectangle, mouse::Cursor)                 *)
(***************************************************************************)
Point(x, y) == [x |-> x, y |-> y]

Rect(x, y, w, h) == [x |-> x, y |-> y, width |-> w, height |-> h]

\* Rectangle::contains: half-open on the right and bottom edges
contains(r, p) ==
    /\ Le(r.x, p.x) /\ Lt(p.x, Add(r.x, r.width))
    /\ Le(r.y, p.y) /\ Lt(p.y, Add(r.y, r.height))

Some(v) == [some |-> TRUE, v |-> v]

NoneF32 == [some |-> FALSE, v |-> R(0)]

NonePoint == [some |-> FALSE, v |-> Point(R(0), R(0))]

\* mouse::Cursor is Available(Point) or Unavailable; position() is the Option
Available(p) == Some(p)

Unavailable == NonePoint

position_over(cursor, bounds) ==
    IF cursor.some /\ contains(bounds, cursor.v) THEN cursor ELSE NonePoint

(***************************************************************************)
(* Direction, Properties, Alignment                                        *)
(***************************************************************************)
Properties(width, margin, scroller_width, alignment) ==
    [width |-> width, margin |-> margin, scroller_width |-> scroller_width,
     alignment |-> alignment]

PropertiesDefault == Properties(R(10), R(0), R(10), "Start")

NoneProperties == [some |-> FALSE, v |-> PropertiesDefault]

Vertical(p) == [kind |-> "Vertical", vertical |-> p, horizontal |-> PropertiesDefault]

Horizontal(p) == [kind |-> "Horizontal", vertical |-> PropertiesDefault, horizontal |-> p]

Both(v, h) == [kind |-> "Both", vertical |-> v, horizontal |-> h]

horizontal(direction) ==
    IF direction.kind \in {"Horizontal", "Both"} THEN Some(direction.horizontal)
    ELSE NoneProperties

vertical(direction) ==
    IF direction.kind \in {"Vertical", "Both"} THEN Some(direction.vertical)
    ELSE NoneProperties

(***************************************************************************)
(* Offset                                                                  *)
(***************************************************************************)
Absolute(v) == [kind |-> "Absolute", v |-> v]

Relative(v) == [kind |-> "Relative", v |-> v]

\* mutant: the stored value is read back without the clamp to the scroll range
Offset_absolute_stored(offset, viewport, content) ==
    IF offset.kind = "Absolute"
    THEN offset.v
    ELSE Max(Mul(Sub(content, viewport), offset.v), R(0))

Offset_absolute(offset, viewport, content) ==
    IF offset.kind = "Absolute"
    THEN Min(offset.v, Max(Sub(content, viewport), R(0)))
    ELSE Max(Mul(Sub(content, viewport), offset.v), R(0))

\* mutant: the End alignment reads the offset like the Start alignment
Offset_translation_start(offset, viewport, content, alignment) ==
    Offset_absolute(offset, viewport, content)

Offset_translation(offset, viewport, content, alignment) ==
    Let(Offset_absolute(offset, viewport, content), LAMBDA off :
        IF alignment = "Start" THEN off
        ELSE Max(Sub(Max(Sub(content, viewport), R(0)), off), R(0)))

(***************************************************************************)
(* Viewport                                                                *)
(***************************************************************************)
Viewport(offset_x, offset_y, bounds, content_bounds) ==
    [offset_x |-> offset_x, offset_y |-> offset_y,
     bounds |-> bounds, content_bounds |-> content_bounds]

NoneViewport ==
    [some |-> FALSE,
     v |-> Viewport(Absolute(R(0)), Absolute(R(0)),
                    Rect(R(0), R(0), R(0), R(0)), Rect(R(0), R(0), R(0), R(0)))]

absolute_offset(vp) ==
    [x |-> Offset_absolute(vp.offset_x, vp.bounds.width, vp.content_bounds.width),
     y |-> Offset_absolute(vp.offset_y, vp.bounds.height, vp.content_bounds.height)]

absolute_offset_reversed(vp) ==
    Let(absolute_offset(vp), LAMBDA a :
        [x |-> Sub(Max(Sub(vp.content_bounds.width, vp.bounds.width), R(0)), a.x),
         y |-> Sub(Max(Sub(vp.content_bounds.height, vp.bounds.height), R(0)), a.y)])

relative_offset(vp) ==
    Let(absolute_offset(vp), LAMBDA a :
        [x |-> Div(a.x, Sub(vp.content_bounds.width, vp.bounds.width)),
         y |-> Div(a.y, Sub(vp.content_bounds.height, vp.bounds.height))])

(***************************************************************************)
(* State                                                                   *)
(***************************************************************************)
State_default ==
    [scroll_area_touched_at |-> NonePoint,
     offset_y |-> Absolute(R(0)),
     y_scroller_grabbed_at |-> NoneF32,
     offset_x |-> Absolute(R(0)),
     x_scroller_grabbed_at |-> NoneF32,
     keyboard_modifiers |-> [shift |-> FALSE],
     last_notified |-> NoneViewport]

align(alignment, delta) == IF alignment = "Start" THEN delta ELSE Neg(delta)

\* mutant: only the vertical offset is scrolled and stored
State_scroll_vertical(self, delta, direction, bounds, content_bounds) ==
    LET horizontal_alignment ==
            IF horizontal(direction).some THEN horizontal(direction).v.alignment
            ELSE "Start"
        vertical_alignment ==
            IF vertical(direction).some THEN vertical(direction).v.alignment
            ELSE "Start"
        dx == align(horizontal_alignment, delta.x)
        dy == align(vertical_alignment, delta.y)
    IN  [self EXCEPT
           !.offset_y =
               IF Lt(bounds.height, content_bounds.height)
               THEN Absolute(Clamp(
                        Sub(Offset_absolute(self.offset_y, bounds.height,
                                            content_bounds.height), dy),
                        R(0), Sub(content_bounds.height, bounds.height)))
               ELSE @]

\* mutant: the delta is subtracted as it comes, whatever the alignment
State_scroll_unaligned(self, delta, direction, bounds, content_bounds) ==
    LET horizontal_alignment ==
            IF horizontal(direction).some THEN horizontal(direction).v.alignment
            ELSE "Start"
        vertical_alignment ==
            IF vertical(direction).some THEN vertical(direction).v.alignment
            ELSE "Start"
        dx == delta.x
        dy == delta.y
    IN  [self EXCEPT
           !.offset_y =
               IF Lt(bounds.height, content_bounds.height)
               THEN Absolute(Clamp(
                        Sub(Offset_absolute(self.offset_y, bounds.height,
                                            content_bounds.height), dy),
                        R(0), Sub(content_bounds.height, bounds.height)))
               ELSE @,
           !.offset_x =
               IF Lt(bounds.width, content_bounds.width)
               THEN Absolute(Clamp(
                        Sub(Offset_absolute(self.offset_x, bounds.width,
                                            content_bounds.width), dx),
                        R(0), Sub(content_bounds.width, bounds.width)))
               ELSE @]

State_scroll(self, delta, direction, bounds, content_bounds) ==
    LET horizontal_alignment ==
            IF horizontal(direction).some THEN horizontal(direction).v.alignment
            ELSE "Start"
        vertical_alignment ==
            IF vertical(direction).some THEN vertical(direction).v.alignment
            ELSE "Start"
        dx == align(horizontal_alignment, delta.x)
        dy == align(vertical_alignment, delta.y)
    IN  [self EXCEPT
           !.offset_y =
               IF Lt(bounds.height, content_bounds.height)
               THEN Absolute(Clamp(
                        Sub(Offset_absolute(self.offset_y, bounds.height,
                                            content_bounds.height), dy),
                        R(0), Sub(content_bounds.height, bounds.height)))
               ELSE @,
           !.offset_x =
               IF Lt(bounds.width, content_bounds.width)
               THEN Absolute(Clamp(
                        Sub(Offset_absolute(self.offset_x, bounds.width,
                                            content_bounds.width), dx),
                        R(0), Sub(content_bounds.width, bounds.width)))
               ELSE @]

\* mutant: the stored value is always read as a percentage of the scroll range
State_unsnap_as_percentage(self, bounds, content_bounds) ==
    [self EXCEPT
       !.offset_x = Absolute(Offset_absolute(Relative(self.offset_x.v), bounds.width,
                                             content_bounds.width)),
       !.offset_y = Absolute(Offset_absolute(Relative(self.offset_y.v), bounds.height,
                                             content_bounds.height))]

State_unsnap(self, bounds, content_bounds) ==
    [self EXCEPT
       !.offset_x = Absolute(Offset_absolute(self.offset_x, bounds.width,
                                             content_bounds.width)),
       !.offset_y = Absolute(Offset_absolute(self.offset_y, bounds.height,
                                             content_bounds.height))]

\* mutant: the percentage stays stored as a Relative offset
State_scroll_y_to_snapped(self, percentage, bounds, content_bounds) ==
    [self EXCEPT !.offset_y = Relative(Clamp(percentage, R(0), R(1)))]

State_scroll_y_to(self, percentage, bounds, content_bounds) ==
    State_unsnap([self EXCEPT !.offset_y = Relative(Clamp(percentage, R(0), R(1)))],
                 bounds, content_bounds)

State_scroll_x_to(self, percentage, bounds, content_bounds) ==
    State_unsnap([self EXCEPT !.offset_x = Relative(Clamp(percentage, R(0), R(1)))],
                 bounds, content_bounds)

\* mutant: the percentages are stored as requested
State_snap_to_unclamped(self, offset) ==
    [self EXCEPT !.offset_x = Relative(offset.x),
                 !.offset_y = Relative(offset.y)]

\* mutant: snapping also lets go of the grabbed scrollers
State_snap_to_releasing(self, offset) ==
    [self EXCEPT !.offset_x = Relative(Clamp(offset.x, R(0), R(1))),
                 !.offset_y = Relative(Clamp(offset.y, R(0), R(1))),
                 !.x_scroller_grabbed_at = NoneF32,
                 !.y_scroller_grabbed_at = NoneF32]

State_snap_to(self, offset) ==
    [self EXCEPT !.offset_x = Relative(Clamp(offset.x, R(0), R(1))),
                 !.offset_y = Relative(Clamp(offset.y, R(0), R(1)))]

\* mutant: the requested offsets are stored without the lower clamp
State_scroll_to_unclamped(self, offset) ==
    [self EXCEPT !.offset_x = Absolute(offset.x),
                 !.offset_y = Absolute(offset.y)]

State_scroll_to(self, offset) ==
    [self EXCEPT !.offset_x = Absolute(Max(offset.x, R(0))),
                 !.offset_y = Absolute(Max(offset.y, R(0)))]

State_translation(self, direction, bounds, content_bounds) ==
    [x |-> IF horizontal(direction).some
           THEN Offset_translation(self.offset_x, bounds.width, content_bounds.width,
                                   horizontal(direction).v.alignment)
           ELSE R(0),
     y |-> IF vertical(direction).some
           THEN Offset_translation(self.offset_y, bounds.height, content_bounds.height,
                                   vertical(direction).v.alignment)
           ELSE R(0)]

scrollers_grabbed(self) ==
    self.x_scroller_grabbed_at.some \/ self.y_scroller_grabbed_at.some

(***************************************************************************)
(* Scrollbars                                                              *)
(***************************************************************************)
\* min length of a scroller, for easier grabbing with very long content
MinScrollerLength == 2

Scrollbar(total_bounds, bounds, scroller_bounds, alignment) ==
    [total_bounds |-> total_bounds, bounds |-> bounds,
     scroller |-> [bounds |-> scroller_bounds], alignment |-> alignment]

NoneScrollbar ==
    [some |-> FALSE,
     v |-> Scrollbar(Rect(R(0), R(0), R(0), R(0)), Rect(R(0), R(0), R(0), R(0)),
                     Rect(R(0), R(0), R(0), R(0)), "Start")]

show_scrollbar_x(direction, bounds, content_bounds) ==
    IF horizontal(direction).some /\ Lt(bounds.width, content_bounds.width)
    THEN horizontal(direction) ELSE NoneProperties

\* mutant: the vertical scrollbar is shown whenever the content is higher,
\* whatever the direction
show_scrollbar_y_any(direction, bounds, content_bounds) ==
    IF Lt(bounds.height, content_bounds.height)
    THEN Some(direction.vertical) ELSE NoneProperties

show_scrollbar_y(direction, bounds, content_bounds) ==
    IF vertical(direction).some /\ Lt(bounds.height, content_bounds.height)
    THEN vertical(direction) ELSE NoneProperties

\* mutant: the vertical scroller has no minimum length
y_scrollbar_proportional(show_x, show_y, translation, bounds, content_bounds) ==
    LET p == show_y.v
    IN  Let(IF show_x.some
            THEN Add(Max(show_x.v.width, show_x.v.scroller_width), show_x.v.margin)
            ELSE R(0), LAMBDA x_scrollbar_height :
        Let(Add(Max(p.width, p.scroller_width), Mul(R(2), p.margin)),
            LAMBDA total_scrollbar_width :
        Let(Rect(Sub(Sub(Add(bounds.x, bounds.width),
                         Div(total_scrollbar_width, R(2))), Div(p.width, R(2))),
                 bounds.y,
                 p.width,
                 Max(Sub(bounds.height, x_scrollbar_height), R(0))),
            LAMBDA scrollbar_bounds :
        Let(Div(bounds.height, content_bounds.height), LAMBDA ratio :
            LET total_scrollbar_bounds ==
                    Rect(Sub(Add(bounds.x, bounds.width), total_scrollbar_width),
                         bounds.y,
                         total_scrollbar_width,
                         Max(Sub(bounds.height, x_scrollbar_height), R(0)))
                scroller_height == Mul(scrollbar_bounds.height, ratio)
                scroller_offset ==
                    Div(Mul(Mul(translation.y, ratio), scrollbar_bounds.height),
                        bounds.height)
                scroller_bounds ==
                    Rect(Sub(Sub(Add(bounds.x, bounds.width),
                                 Div(total_scrollbar_width, R(2))),
                             Div(p.scroller_width, R(2))),
                         Max(Add(scrollbar_bounds.y, scroller_offset), R(0)),
                         p.scroller_width,
                         scroller_height)
            IN  IF show_y.some
                THEN Some(Scrollbar(total_scrollbar_bounds, scrollbar_bounds,
                                    scroller_bounds, p.alignment))
                ELSE NoneScrollbar))))

\* show_x and show_y are the results of show_scrollbar_x and show_scrollbar_y
y_scrollbar(show_x, show_y, translation, bounds, content_bounds) ==
    LET p == show_y.v
    IN  Let(IF show_x.some
            THEN Add(Max(show_x.v.width, show_x.v.scroller_width), show_x.v.margin)
            ELSE R(0), LAMBDA x_scrollbar_height :
        Let(Add(Max(p.width, p.scroller_width), Mul(R(2), p.margin)),
            LAMBDA total_scrollbar_width :
        Let(Rect(Sub(Sub(Add(bounds.x, bounds.width),
                         Div(total_scrollbar_width, R(2))), Div(p.width, R(2))),
                 bounds.y,
                 p.width,
                 Max(Sub(bounds.height, x_scrollbar_height), R(0))),
            LAMBDA scrollbar_bounds :
        Let(Div(bounds.height, content_bounds.height), LAMBDA ratio :
            LET total_scrollbar_bounds ==
                    Rect(Sub(Add(bounds.x, bounds.width), total_scrollbar_width),
                         bounds.y,
                         total_scrollbar_width,
                         Max(Sub(bounds.height, x_scrollbar_height), R(0)))
                scroller_height ==
                    Max(Mul(scrollbar_bounds.height, ratio), R(MinScrollerLength))
                scroller_offset ==
                    Div(Mul(Mul(translation.y, ratio), scrollbar_bounds.height),
                        bounds.height)
                scroller_bounds ==
                    Rect(Sub(Sub(Add(bounds.x, bounds.width),
                                 Div(total_scrollbar_width, R(2))),
                             Div(p.scroller_width, R(2))),
                         Max(Add(scrollbar_bounds.y, scroller_offset), R(0)),
                         p.scroller_width,
                         scroller_height)
            IN  IF show_y.some
                THEN Some(Scrollbar(total_scrollbar_bounds, scrollbar_bounds,
                                    scroller_bounds, p.alignment))
                ELSE NoneScrollbar))))

\* mutant: the horizontal scrollbar is not shortened by the vertical one
x_scrollbar_full_width(show_x, y, translation, bounds, content_bounds) ==
    LET p == show_x.v
        scrollbar_y_width == R(0)
    IN  Let(Add(Max(p.width, p.scroller_width), Mul(R(2), p.margin)),
            LAMBDA total_scrollbar_height :
        Let(Rect(bounds.x,
                 Sub(Sub(Add(bounds.y, bounds.height),
                         Div(total_scrollbar_height, R(2))), Div(p.width, R(2))),
                 Max(Sub(bounds.width, scrollbar_y_width), R(0)),
                 p.width),
            LAMBDA scrollbar_bounds :
        Let(Div(bounds.width, content_bounds.width), LAMBDA ratio :
            LET total_scrollbar_bounds ==
                    Rect(bounds.x,
                         Sub(Add(bounds.y, bounds.height), total_scrollbar_height),
                         Max(Sub(bounds.width, scrollbar_y_width), R(0)),
                         total_scrollbar_height)
                scroller_length ==
                    Max(Mul(scrollbar_bounds.width, ratio), R(MinScrollerLength))
                scroller_offset ==
                    Div(Mul(Mul(translation.x, ratio), scrollbar_bounds.width),
                        bounds.width)
                scroller_bounds ==
                    Rect(Max(Add(scrollbar_bounds.x, scroller_offset), R(0)),
                         Sub(Sub(Add(bounds.y, bounds.height),
                                 Div(total_scrollbar_height, R(2))),
                             Div(p.scroller_width, R(2))),
                         scroller_length,
                         p.scroller_width)
            IN  IF show_x.some
                THEN Some(Scrollbar(total_scrollbar_bounds, scrollbar_bounds,
                                    scroller_bounds, p.alignment))
                ELSE NoneScrollbar)))

\* show_x is the result of show_scrollbar_x, y the vertical scrollbar
x_scrollbar(show_x, y, translation, bounds, content_bounds) ==
    LET p == show_x.v
        scrollbar_y_width == IF y.some THEN y.v.total_bounds.width ELSE R(0)
    IN  Let(Add(Max(p.width, p.scroller_width), Mul(R(2), p.margin)),
            LAMBDA total_scrollbar_height :
        Let(Rect(bounds.x,
                 Sub(Sub(Add(bounds.y, bounds.height),
                         Div(total_scrollbar_height, R(2))), Div(p.width, R(2))),
                 Max(Sub(bounds.width, scrollbar_y_width), R(0)),
                 p.width),
            LAMBDA scrollbar_bounds :
        Let(Div(bounds.width, content_bounds.width), LAMBDA ratio :
            LET total_scrollbar_bounds ==
                    Rect(bounds.x,
                         Sub(Add(bounds.y, bounds.height), total_scrollbar_height),
                         Max(Sub(bounds.width, scrollbar_y_width), R(0)),
                         total_scrollbar_height)
                scroller_length ==
                    Max(Mul(scrollbar_bounds.width, ratio), R(MinScrollerLength))
                scroller_offset ==
                    Div(Mul(Mul(translation.x, ratio), scrollbar_bounds.width),
                        bounds.width)
                scroller_bounds ==
                    Rect(Max(Add(scrollbar_bounds.x, scroller_offset), R(0)),
                         Sub(Sub(Add(bounds.y, bounds.height),
                                 Div(total_scrollbar_height, R(2))),
                             Div(p.scroller_width, R(2))),
                         scroller_length,
                         p.scroller_width)
            IN  IF show_x.some
                THEN Some(Scrollbar(total_scrollbar_bounds, scrollbar_bounds,
                                    scroller_bounds, p.alignment))
                ELSE NoneScrollbar)))

Scrollbars_new(state, direction, bounds, content_bounds) ==
    Let(State_translation(state, direction, bounds, content_bounds),
        LAMBDA translation :
    Let(show_scrollbar_x(direction, bounds, content_bounds), LAMBDA show_x :
    Let(y_scrollbar(show_x, show_scrollbar_y(direction, bounds, content_bounds),
                    translation, bounds, content_bounds), LAMBDA y :
        [y |-> y,
         x |-> x_scrollbar(show_x, y, translation, bounds, content_bounds)])))

Scrollbar_is_mouse_over(scrollbar, cursor_position) ==
    contains(scrollbar.total_bounds, cursor_position)

\* (mouse_over_y_scrollbar, mouse_over_x_scrollbar)
Scrollbars_is_mouse_over(scrollbars, cursor) ==
    IF cursor.some
    THEN [y |-> scrollbars.y.some /\ Scrollbar_is_mouse_over(scrollbars.y.v, cursor.v),
          x |-> scrollbars.x.some /\ Scrollbar_is_mouse_over(scrollbars.x.v, cursor.v)]
    ELSE [y |-> FALSE, x |-> FALSE]

\* mutant: every press grabs the scroller by its middle
grab_y_scroller_center(scrollbars, cursor_position) ==
    IF scrollbars.y.some /\ contains(scrollbars.y.v.total_bounds, cursor_position)
    THEN Some(Q(1, 2))
    ELSE NoneF32

grab_y_scroller(scrollbars, cursor_position) ==
    IF scrollbars.y.some /\ contains(scrollbars.y.v.total_bounds, cursor_position)
    THEN Some(IF contains(scrollbars.y.v.scroller.bounds, cursor_position)
              THEN Div(Sub(cursor_position.y, scrollbars.y.v.scroller.bounds.y),
                       scrollbars.y.v.scroller.bounds.height)
              ELSE Q(1, 2))
    ELSE NoneF32

grab_x_scroller(scrollbars, cursor_position) ==
    IF scrollbars.x.some /\ contains(scrollbars.x.v.total_bounds, cursor_position)
    THEN Some(IF contains(scrollbars.x.v.scroller.bounds, cursor_position)
              THEN Div(Sub(cursor_position.x, scrollbars.x.v.scroller.bounds.x),
                       scrollbars.x.v.scroller.bounds.width)
              ELSE Q(1, 2))
    ELSE NoneF32

Scrollbars_active(scrollbars) == scrollbars.y.some \/ scrollbars.x.some

scroll_percentage_y(self, grabbed_at, cursor_position) ==
    LET percentage ==
            Div(Sub(Sub(cursor_position.y, self.bounds.y),
                    Mul(self.scroller.bounds.height, grabbed_at)),
                Sub(self.bounds.height, self.scroller.bounds.height))
    IN  IF self.alignment = "Start" THEN percentage ELSE Sub(R(1), percentage)

scroll_percentage_x(self, grabbed_at, cursor_position) ==
    LET percentage ==
            Div(Sub(Sub(cursor_position.x, self.bounds.x),
                    Mul(self.scroller.bounds.width, grabbed_at)),
                Sub(self.bounds.width, self.scroller.bounds.width))
    IN  IF self.alignment = "Start" THEN percentage ELSE Sub(R(1), percentage)

(***************************************************************************)
(* notify_on_scroll                                                        *)
(***************************************************************************)
\* the denominator of f32::EPSILON = 2^-23
EpsilonInverse == 8388608

\* (a - b).abs() <= f32::EPSILON || (a.is_nan() && b.is_nan())
unchanged(a, b) ==
    Let(FAbs(Sub(a, b)), LAMBDA diff :
        \/ IsFinite(diff) /\ (diff.n = 0 \/ diff.d \div diff.n >= EpsilonInverse)
        \/ is_nan(a) /\ is_nan(b))

\* mutant: every viewport is published, also one equal to the last notified
notify_on_scroll_always(state, on_scroll, bounds, content_bounds) ==
    LET viewport == Viewport(state.offset_x, state.offset_y, bounds, content_bounds)
    IN  IF ~on_scroll THEN [state |-> state, published |-> 0]
        ELSE IF /\ Le(content_bounds.width, bounds.width)
                /\ Le(content_bounds.height, bounds.height)
        THEN [state |-> state, published |-> 0]
        ELSE [state |-> [state EXCEPT !.last_notified = Some(viewport)],
              published |-> 1]

\* mutant: content exactly as large as the viewport counts as overflowing
notify_on_scroll_strict(state, on_scroll, bounds, content_bounds) ==
    LET viewport == Viewport(state.offset_x, state.offset_y, bounds, content_bounds)
    IN  IF ~on_scroll THEN [state |-> state, published |-> 0]
        ELSE IF /\ Lt(content_bounds.width, bounds.width)
                /\ Lt(content_bounds.height, bounds.height)
        THEN [state |-> state, published |-> 0]
        ELSE IF /\ state.last_notified.some
                /\ Let(relative_offset(state.last_notified.v),
                       LAMBDA last_relative_offset :
                   Let(relative_offset(viewport), LAMBDA current_relative_offset :
                   Let(absolute_offset(state.last_notified.v),
                       LAMBDA last_absolute_offset :
                   Let(absolute_offset(viewport), LAMBDA current_absolute_offset :
                       /\ unchanged(last_relative_offset.x, current_relative_offset.x)
                       /\ unchanged(last_relative_offset.y, current_relative_offset.y)
                       /\ unchanged(last_absolute_offset.x, current_absolute_offset.x)
                       /\ unchanged(last_absolute_offset.y, current_absolute_offset.y)))))
        THEN [state |-> state, published |-> 0]
        ELSE [state |-> [state EXCEPT !.last_notified = Some(viewport)],
              published |-> 1]

\* The result is the state and the number of messages published to the shell.
notify_on_scroll(state, on_scroll, bounds, content_bounds) ==
    LET viewport == Viewport(state.offset_x, state.offset_y, bounds, content_bounds)
    IN  IF ~on_scroll THEN [state |-> state, published |-> 0]
        ELSE IF /\ Le(content_bounds.width, bounds.width)
                /\ Le(content_bounds.height, bounds.height)
        THEN [state |-> state, published |-> 0]
        ELSE IF /\ state.last_notified.some
                /\ Let(relative_offset(state.last_notified.v),
                       LAMBDA last_relative_offset :
                   Let(relative_offset(viewport), LAMBDA current_relative_offset :
                   Let(absolute_offset(state.last_notified.v),
                       LAMBDA last_absolute_offset :
                   Let(absolute_offset(viewport), LAMBDA current_absolute_offset :
                       /\ unchanged(last_relative_offset.x, current_relative_offset.x)
                       /\ unchanged(last_relative_offset.y, current_relative_offset.y)
                       /\ unchanged(last_absolute_offset.x, current_absolute_offset.x)
                       /\ unchanged(last_absolute_offset.y, current_absolute_offset.y)))))
        THEN [state |-> state, published |-> 0]
        ELSE [state |-> [state EXCEPT !.last_notified = Some(viewport)],
              published |-> 1]

(***************************************************************************)
(* Events                                                                  *)
(***************************************************************************)
Lines(x, y) == [unit |-> "Lines", x |-> x, y |-> y]

Pixels(x, y) == [unit |-> "Pixels", x |-> x, y |-> y]

Event(kind, delta, shift) ==
    [kind |-> kind, delta |-> delta, modifiers |-> [shift |-> shift]]

WheelScrolled(delta) == Event("WheelScrolled", delta, FALSE)

ModifiersChanged(shift) == Event("ModifiersChanged", Lines(R(0), R(0)), shift)

\* an event without payload: FingerPressed, FingerMoved, FingerLifted, FingerLost,
\* ButtonPressed (left), ButtonReleased (left), CursorMoved, and Other for every
\* event no arm of the handler matches (another button, a key press)
Plain(kind) == Event(kind, Lines(R(0), R(0)), FALSE)

TouchKinds == {"FingerPressed", "FingerMoved", "FingerLifted", "FingerLost"}

\* px per line of a wheel event
LineHeight == 60

(***************************************************************************)
(* Scrollable::on_event                                                    *)
(* The handler's running result: the state, event_status, the number of    *)
(* on_scroll messages published, and whether a return statement was hit.   *)
(***************************************************************************)
Return(acc, status) == [acc EXCEPT !.status = status, !.returned = TRUE]

Notify(acc, w) ==
    Let(notify_on_scroll(acc.state, w.on_scroll, w.bounds, w.content_bounds),
        LAMBDA n :
        [acc EXCEPT !.state = n.state, !.published = acc.published + n.published])

\* mutant: the content keeps the cursor while it hovers a scrollbar
content_cursor_over_scrollbars(state, cursor, w) ==
    Let(position_over(cursor, w.bounds), LAMBDA cursor_over_scrollable :
    Let(State_translation(state, w.direction, w.bounds, w.content_bounds),
        LAMBDA translation :
        IF cursor_over_scrollable.some
        THEN Available(Point(Add(cursor_over_scrollable.v.x, translation.x),
                             Add(cursor_over_scrollable.v.y, translation.y)))
        ELSE Unavailable))

\* the cursor handed to the content (on_event, draw and mouse_interaction)
content_cursor(state, cursor, w) ==
    Let(Scrollbars_is_mouse_over(
            Scrollbars_new(state, w.direction, w.bounds, w.content_bounds), cursor),
        LAMBDA over :
    Let(position_over(cursor, w.bounds), LAMBDA cursor_over_scrollable :
    Let(State_translation(state, w.direction, w.bounds, w.content_bounds),
        LAMBDA translation :
        IF cursor_over_scrollable.some /\ ~(over.x \/ over.y)
        THEN Available(Point(Add(cursor_over_scrollable.v.x, translation.x),
                             Add(cursor_over_scrollable.v.y, translation.y)))
        ELSE Unavailable)))

\* mutant: a line counts as one pixel
on_event_wheel_unscaled(acc, event, cursor, w) ==
    LET state == acc.state
        cursor_over_scrollable == position_over(cursor, w.bounds)
        d == event.delta
        movement == IF state.keyboard_modifiers.shift
                    THEN [x |-> d.y, y |-> d.x] ELSE [x |-> d.x, y |-> d.y]
        scrolled == State_scroll(state, movement, w.direction, w.bounds, w.content_bounds)
    IN  IF ~cursor_over_scrollable.some THEN Return(acc, "Ignored")
        ELSE [Notify([acc EXCEPT !.state = scrolled], w) EXCEPT !.status = "Captured"]

\* mutant: the shift modifier is not looked at
on_event_wheel_unswapped(acc, event, cursor, w) ==
    LET state == acc.state
        cursor_over_scrollable == position_over(cursor, w.bounds)
        d == event.delta
        movement == [x |-> d.x, y |-> d.y]
        delta == IF d.unit = "Lines"
                 THEN [x |-> Mul(movement.x, R(LineHeight)),
                       y |-> Mul(movement.y, R(LineHeight))]
                 ELSE [x |-> d.x, y |-> d.y]
        scrolled == State_scroll(state, delta, w.direction, w.bounds, w.content_bounds)
    IN  IF ~cursor_over_scrollable.some THEN Return(acc, "Ignored")
        ELSE [Notify([acc EXCEPT !.state = scrolled], w) EXCEPT !.status = "Captured"]

\* mutant: the event is captured only if it changed an offset
on_event_wheel_if_scrolled(acc, event, cursor, w) ==
    LET state == acc.state
        cursor_over_scrollable == position_over(cursor, w.bounds)
        d == event.delta
        movement == IF state.keyboard_modifiers.shift
                    THEN [x |-> d.y, y |-> d.x] ELSE [x |-> d.x, y |-> d.y]
        delta == IF d.unit = "Lines"
                 THEN [x |-> Mul(movement.x, R(LineHeight)),
                       y |-> Mul(movement.y, R(LineHeight))]
                 ELSE [x |-> d.x, y |-> d.y]
        scrolled == State_scroll(state, delta, w.direction, w.bounds, w.content_bounds)
    IN  IF ~cursor_over_scrollable.some THEN Return(acc, "Ignored")
        ELSE [Notify([acc EXCEPT !.state = scrolled], w)
                EXCEPT !.status = IF scrolled = state THEN "Ignored" ELSE "Captured"]

on_event_wheel(acc, event, cursor, w) ==
    LET state == acc.state
        cursor_over_scrollable == position_over(cursor, w.bounds)
        d == event.delta
        movement == IF state.keyboard_modifiers.shift
                    THEN [x |-> d.y, y |-> d.x] ELSE [x |-> d.x, y |-> d.y]
        delta == IF d.unit = "Lines"
                 THEN [x |-> Mul(movement.x, R(LineHeight)),
                       y |-> Mul(movement.y, R(LineHeight))]
                 ELSE [x |-> d.x, y |-> d.y]
        scrolled == State_scroll(state, delta, w.direction, w.bounds, w.content_bounds)
    IN  IF ~cursor_over_scrollable.some THEN Return(acc, "Ignored")
        ELSE [Notify([acc EXCEPT !.state = scrolled], w) EXCEPT !.status = "Captured"]

\* mutant: a pan keeps the anchor of the press
on_event_touch_from_press(acc, event, cursor, w) ==
    LET state == acc.state
        touched_at == state.scroll_area_touched_at
        delta == [x |-> Sub(cursor.v.x, touched_at.v.x),
                  y |-> Sub(cursor.v.y, touched_at.v.y)]
        scrolled == State_scroll(state, delta, w.direction, w.bounds, w.content_bounds)
    IN  CASE event.kind = "FingerPressed" ->
               IF ~cursor.some THEN Return(acc, "Ignored")
               ELSE [acc EXCEPT !.state.scroll_area_touched_at = Some(cursor.v),
                                !.status = "Captured"]
          [] event.kind = "FingerMoved" ->
               IF ~touched_at.some THEN [acc EXCEPT !.status = "Captured"]
               ELSE IF ~cursor.some THEN Return(acc, "Ignored")
               ELSE [Notify([acc EXCEPT !.state = scrolled], w)
                       EXCEPT !.status = "Captured"]
          [] OTHER ->
               [acc EXCEPT !.state.scroll_area_touched_at = NonePoint,
                           !.status = "Captured"]

\* mutant: lifting the finger keeps the anchor of the pan
on_event_touch_lift_keeps(acc, event, cursor, w) ==
    LET state == acc.state
        touched_at == state.scroll_area_touched_at
        delta == [x |-> Sub(cursor.v.x, touched_at.v.x),
                  y |-> Sub(cursor.v.y, touched_at.v.y)]
        scrolled == State_scroll(state, delta, w.direction, w.bounds, w.content_bounds)
    IN  CASE event.kind = "FingerPressed" ->
               IF ~cursor.some THEN Return(acc, "Ignored")
               ELSE [acc EXCEPT !.state.scroll_area_touched_at = Some(cursor.v),
                                !.status = "Captured"]
          [] event.kind = "FingerMoved" ->
               IF ~touched_at.some THEN [acc EXCEPT !.status = "Captured"]
               ELSE IF ~cursor.some THEN Return(acc, "Ignored")
               ELSE [Notify([acc EXCEPT !.state =
                               [scrolled EXCEPT !.scroll_area_touched_at = Some(cursor.v)]],
                            w)
                       EXCEPT !.status = "Captured"]
          [] OTHER -> [acc EXCEPT !.status = "Captured"]

on_event_touch(acc, event, cursor, w) ==
    LET state == acc.state
        touched_at == state.scroll_area_touched_at
        delta == [x |-> Sub(cursor.v.x, touched_at.v.x),
                  y |-> Sub(cursor.v.y, touched_at.v.y)]
        scrolled == State_scroll(state, delta, w.direction, w.bounds, w.content_bounds)
    IN  CASE event.kind = "FingerPressed" ->
               IF ~cursor.some THEN Return(acc, "Ignored")
               ELSE [acc EXCEPT !.state.scroll_area_touched_at = Some(cursor.v),
                                !.status = "Captured"]
          [] event.kind = "FingerMoved" ->
               IF ~touched_at.some THEN [acc EXCEPT !.status = "Captured"]
               ELSE IF ~cursor.some THEN Return(acc, "Ignored")
               ELSE [Notify([acc EXCEPT !.state =
                               [scrolled EXCEPT !.scroll_area_touched_at = Some(cursor.v)]],
                            w)
                       EXCEPT !.status = "Captured"]
          [] OTHER ->
               [acc EXCEPT !.state.scroll_area_touched_at = NonePoint,
                           !.status = "Captured"]

\* mutant: a press on the scrollbar grabs the scroller again during a drag
on_event_y_regrab(acc, event, cursor, scrollbars, over, w) ==
    LET state == acc.state
        scroller_grabbed_at == state.y_scroller_grabbed_at
    IN  IF acc.returned THEN acc
        ELSE IF scroller_grabbed_at.some /\ ~(event.kind \in {"ButtonPressed", "FingerPressed"})
        THEN CASE event.kind \in {"ButtonReleased", "FingerLifted", "FingerLost"} ->
                    [acc EXCEPT !.state.y_scroller_grabbed_at = NoneF32,
                                !.status = "Captured"]
               [] event.kind \in {"CursorMoved", "FingerMoved"} ->
                    IF ~scrollbars.y.some THEN acc
                    ELSE IF ~cursor.some THEN Return(acc, "Ignored")
                    ELSE [Notify([acc EXCEPT !.state =
                                    State_scroll_y_to(state,
                                        scroll_percentage_y(scrollbars.y.v,
                                            scroller_grabbed_at.v, cursor.v),
                                        w.bounds, w.content_bounds)], w)
                            EXCEPT !.status = "Captured"]
               [] OTHER -> acc
        ELSE IF event.kind \in {"ButtonPressed", "FingerPressed"} /\ over.y
        THEN IF ~cursor.some THEN Return(acc, "Ignored")
             ELSE Let(grab_y_scroller(scrollbars, cursor.v), LAMBDA grab :
                IF grab.some /\ scrollbars.y.some
                THEN [Notify([acc EXCEPT !.state =
                                [State_scroll_y_to(state,
                                     scroll_percentage_y(scrollbars.y.v, grab.v,
                                                         cursor.v),
                                     w.bounds, w.content_bounds)
                                   EXCEPT !.y_scroller_grabbed_at = Some(grab.v)]], w)
                        EXCEPT !.status = "Captured"]
                ELSE [acc EXCEPT !.status = "Captured"])
        ELSE acc

\* mutant: the release that ends a drag also scrolls back to the start
on_event_y_release_resets(acc, event, cursor, scrollbars, over, w) ==
    LET state == acc.state
        scroller_grabbed_at == state.y_scroller_grabbed_at
    IN  IF acc.returned THEN acc
        ELSE IF scroller_grabbed_at.some
        THEN CASE event.kind \in {"ButtonReleased", "FingerLifted", "FingerLost"} ->
                    [acc EXCEPT !.state.y_scroller_grabbed_at = NoneF32,
                                !.state.offset_y = Absolute(R(0)),
                                !.status = "Captured"]
               [] event.kind \in {"CursorMoved", "FingerMoved"} ->
                    IF ~scrollbars.y.some THEN acc
                    ELSE IF ~cursor.some THEN Return(acc, "Ignored")
                    ELSE [Notify([acc EXCEPT !.state =
                                    State_scroll_y_to(state,
                                        scroll_percentage_y(scrollbars.y.v,
                                            scroller_grabbed_at.v, cursor.v),
                                        w.bounds, w.content_bounds)], w)
                            EXCEPT !.status = "Captured"]
               [] OTHER -> acc
        ELSE IF event.kind \in {"ButtonPressed", "FingerPressed"} /\ over.y
        THEN IF ~cursor.some THEN Return(acc, "Ignored")
             ELSE Let(grab_y_scroller(scrollbars, cursor.v), LAMBDA grab :
                IF grab.some /\ scrollbars.y.some
                THEN [Notify([acc EXCEPT !.state =
                                [State_scroll_y_to(state,
                                     scroll_percentage_y(scrollbars.y.v, grab.v,
                                                         cursor.v),
                                     w.bounds, w.content_bounds)
                                   EXCEPT !.y_scroller_grabbed_at = Some(grab.v)]], w)
                        EXCEPT !.status = "Captured"]
                ELSE [acc EXCEPT !.status = "Captured"])
        ELSE acc

on_event_y(acc, event, cursor, scrollbars, over, w) ==
    LET state == acc.state
        scroller_grabbed_at == state.y_scroller_grabbed_at
    IN  IF acc.returned THEN acc
        ELSE IF scroller_grabbed_at.some
        THEN CASE event.kind \in {"ButtonReleased", "FingerLifted", "FingerLost"} ->
                    [acc EXCEPT !.state.y_scroller_grabbed_at = NoneF32,
                                !.status = "Captured"]
               [] event.kind \in {"CursorMoved", "FingerMoved"} ->
                    IF ~scrollbars.y.some THEN acc
                    ELSE IF ~cursor.some THEN Return(acc, "Ignored")
                    ELSE [Notify([acc EXCEPT !.state =
                                    State_scroll_y_to(state,
                                        scroll_percentage_y(scrollbars.y.v,
                                            scroller_grabbed_at.v, cursor.v),
                                        w.bounds, w.content_bounds)], w)
                            EXCEPT !.status = "Captured"]
               [] OTHER -> acc
        ELSE IF event.kind \in {"ButtonPressed", "FingerPressed"} /\ over.y
        THEN IF ~cursor.some THEN Return(acc, "Ignored")
             ELSE Let(grab_y_scroller(scrollbars, cursor.v), LAMBDA grab :
                IF grab.some /\ scrollbars.y.some
                THEN [Notify([acc EXCEPT !.state =
                                [State_scroll_y_to(state,
                                     scroll_percentage_y(scrollbars.y.v, grab.v,
                                                         cursor.v),
                                     w.bounds, w.content_bounds)
                                   EXCEPT !.y_scroller_grabbed_at = Some(grab.v)]], w)
                        EXCEPT !.status = "Captured"]
                ELSE [acc EXCEPT !.status = "Captured"])
        ELSE acc

on_event_x(acc, event, cursor, scrollbars, over, w) ==
    LET state == acc.state
        scroller_grabbed_at == state.x_scroller_grabbed_at
    IN  IF acc.returned THEN acc
        ELSE IF scroller_grabbed_at.some
        THEN CASE event.kind \in {"ButtonReleased", "FingerLifted", "FingerLost"} ->
                    [acc EXCEPT !.state.x_scroller_grabbed_at = NoneF32,
                                !.status = "Captured"]
               [] event.kind \in {"CursorMoved", "FingerMoved"} ->
                    IF ~cursor.some THEN Return(acc, "Ignored")
                    ELSE IF ~scrollbars.x.some THEN [acc EXCEPT !.status = "Captured"]
                    ELSE [Notify([acc EXCEPT !.state =
                                    State_scroll_x_to(state,
                                        scroll_percentage_x(scrollbars.x.v,
                                            scroller_grabbed_at.v, cursor.v),
                                        w.bounds, w.content_bounds)], w)
                            EXCEPT !.status = "Captured"]
               [] OTHER -> acc
        ELSE IF event.kind \in {"ButtonPressed", "FingerPressed"} /\ over.x
        THEN IF ~cursor.some THEN Return(acc, "Ignored")
             ELSE Let(grab_x_scroller(scrollbars, cursor.v), LAMBDA grab :
                IF grab.some /\ scrollbars.x.some
                THEN [Notify([acc EXCEPT !.state =
                                [State_scroll_x_to(state,
                                     scroll_percentage_x(scrollbars.x.v, grab.v,
                                                         cursor.v),
                                     w.bounds, w.content_bounds)
                                   EXCEPT !.x_scroller_grabbed_at = Some(grab.v)]], w)
                        EXCEPT !.status = "Captured"]
                ELSE acc)
        ELSE acc

\* mutant: the scrollable handles the event although the content captured it
on_event_after_capture(state, event, cursor, child_status, w) ==
    Let(Scrollbars_new(state, w.direction, w.bounds, w.content_bounds),
        LAMBDA scrollbars :
    Let(Scrollbars_is_mouse_over(scrollbars, cursor), LAMBDA over :
    LET acc0 == [state |-> state, status |-> child_status, published |-> 0,
                 returned |-> FALSE]
        acc1 == IF event.kind = "WheelScrolled"
                THEN on_event_wheel(acc0, event, cursor, w)
                ELSE IF /\ event.kind \in TouchKinds
                        /\ (state.scroll_area_touched_at.some \/ (~over.y /\ ~over.x))
                THEN on_event_touch(acc0, event, cursor, w)
                ELSE acc0
        acc2 == on_event_y(acc1, event, cursor, scrollbars, over, w)
        acc3 == on_event_x(acc2, event, cursor, scrollbars, over, w)
    IN  IF event.kind = "ModifiersChanged"
        THEN Return([acc0 EXCEPT !.state.keyboard_modifiers = event.modifiers], "Ignored")
        ELSE acc3))

\* child_status is what the content's own on_event returns for the event
on_event(state, event, cursor, child_status, w) ==
    Let(Scrollbars_new(state, w.direction, w.bounds, w.content_bounds),
        LAMBDA scrollbars :
    Let(Scrollbars_is_mouse_over(scrollbars, cursor), LAMBDA over :
    LET acc0 == [state |-> state, status |-> child_status, published |-> 0,
                 returned |-> FALSE]
        acc1 == IF event.kind = "WheelScrolled"
                THEN on_event_wheel(acc0, event, cursor, w)
                ELSE IF /\ event.kind \in TouchKinds
                        /\ (state.scroll_area_touched_at.some \/ (~over.y /\ ~over.x))
                THEN on_event_touch(acc0, event, cursor, w)
                ELSE acc0
        acc2 == on_event_y(acc1, event, cursor, scrollbars, over, w)
        acc3 == on_event_x(acc2, event, cursor, scrollbars, over, w)
    IN  IF child_status = "Captured" THEN Return(acc0, "Captured")
        ELSE IF event.kind = "ModifiersChanged"
        THEN Return([acc0 EXCEPT !.state.keyboard_modifiers = event.modifiers], "Ignored")
        ELSE acc3))

(***************************************************************************)
(* The widgets explored: direction, layout (bounds of the scrollable and   *)
(* of its content) and whether an on_scroll callback is configured.  They  *)
(* are fixed for a behaviour.                                              *)
(***************************************************************************)
Widget(name, direction, bounds, content_bounds, on_scroll) ==
    [name |-> name, direction |-> direction, bounds |-> bounds,
     content_bounds |-> content_bounds, on_scroll |-> on_scroll]

Thin(alignment) == Properties(R(2), R(0), R(2), alignment)

\* viewport 100x100, content 100x300, vertical only
Tall == Widget("Tall", Vertical(PropertiesDefault),
               Rect(R(0), R(0), R(100), R(100)), Rect(R(0), R(0), R(100), R(300)), TRUE)

\* both axes overflow, the vertical one aligned to the end
Grid == Widget("Grid", Both(Thin("End"), Thin("Start")),
               Rect(R(0), R(0), R(12), R(12)), Rect(R(0), R(0), R(24), R(24)), FALSE)

\* the content fits: as wide as the viewport and less high
Fits == Widget("Fits", Both(Thin("Start"), Thin("Start")),
               Rect(R(0), R(0), R(12), R(12)), Rect(R(0), R(0), R(12), R(6)), TRUE)

\* horizontal only, aligned to the end; the content also overflows vertically
Wide == Widget("Wide", Horizontal(Thin("End")),
               Rect(R(0), R(0), R(12), R(12)), Rect(R(0), R(0), R(24), R(18)), FALSE)

\* content so long that the scroller has its minimum length
Long == Widget("Long", Vertical(Thin("Start")),
               Rect(R(0), R(0), R(8), R(8)), Rect(R(0), R(0), R(8), R(40)), TRUE)

Widgets == {Tall, Grid, Fits, Wide, Long}

\* the largest wheel movement, in lines
MaxLines == 10

WheelDeltas ==
    {Lines(R(0), R(-MaxLines)), Lines(R(0), R(MaxLines)), Lines(R(0), R(-10)),
     Lines(R(0), R(-1)), Lines(R(1), R(0)), Pixels(R(0), R(200))}

\* the cursors tried on a widget: over the content, over each scrollbar it
\* shows, outside its bounds, unavailable
Cursors(w) ==
    CASE w.name = "Tall" -> {Available(Point(R(50), R(50))), Unavailable}
      [] w.name = "Grid" -> {Available(Point(R(10), R(5))), Available(Point(R(5), R(10))),
                             Unavailable}
      [] w.name = "Wide" -> {Available(Point(R(3), R(4))), Available(Point(R(9), R(10)))}
      [] w.name = "Long" -> {Available(Point(R(4), R(1))), Available(Point(R(7), R(1)))}
      [] OTHER -> {Available(Point(R(4), R(4))), Available(Point(R(20), R(4)))}

ChildStatuses == {"Ignored", "Captured"}

RelativeOffsets == {[x |-> Q(1, 2), y |-> R(2)]}

AbsoluteOffsets == {[x |-> R(-5), y |-> R(1000)]}

(***************************************************************************)
(* The state machine.  The host handles one event (or one operation) at a  *)
(* time: it calls the widget, then takes the status and the messages the   *)
(* call published before it delivers the next event.                       *)
(***************************************************************************)
VARIABLES
    widget,   \* the Scrollable and its layout
    state,    \* its State in the widget tree
    call,     \* the call that has just returned: inputs, results, State before it
    prev,     \* what the host took from the call before
    probe     \* an evaluation of a pure function: its arguments and its result

vars == <<widget, state, call, prev, probe>>

NoTarget == [x |-> R(0), y |-> R(0)]

Call(op, event, cursor, child_status, child_cursor, target, status, published, pre) ==
    [op |-> op, event |-> event, cursor |-> cursor, child_status |-> child_status,
     child_cursor |-> child_cursor, target |-> target, status |-> status,
     published |-> published, pre |-> pre]

NoCall ==
    Call("none", Plain("Other"), Unavailable, "Ignored", Unavailable, NoTarget,
         "Ignored", 0, State_default)

Probe(fn, offset, viewport, content, result) ==
    [fn |-> fn, offset |-> offset, viewport |-> viewport, content |-> content,
     result |-> result]

NoProbe == Probe("none", Absolute(R(0)), R(0), R(0), R(0))

\* the absolute offsets of a State in the widget's layout
Offsets(s) ==
    absolute_offset(Viewport(s.offset_x, s.offset_y, widget.bounds, widget.content_bounds))

\* a wheel event that reached the scrollable's wheel handling
IsWheel(c) ==
    /\ c.op = "on_event" /\ c.event.kind = "WheelScrolled"
    /\ c.child_status = "Ignored" /\ c.status = "Captured"

\* a finger lift or loss that reached the scrollable during a touch pan
IsLift(c) ==
    /\ c.op = "on_event" /\ c.event.kind \in {"FingerLifted", "FingerLost"}
    /\ c.child_status = "Ignored" /\ c.pre.scroll_area_touched_at.some

Taken(c) ==
    [wheel |-> IsWheel(c),
     lifted |-> IsLift(c),
     published |-> c.published,
     before |-> IF IsWheel(c) /\ c.published > 0 THEN Offsets(c.pre) ELSE NoTarget]

Init ==
    /\ widget \in Widgets
    /\ state = State_default
    /\ call = NoCall
    /\ prev = Taken(NoCall)
    /\ probe = NoProbe

\* the host delivers an event to Scrollable::on_event
Deliver(event, cursor, child_status) ==
    /\ call.op = "none"
    /\ \E res \in {on_event(state, event, cursor, child_status, widget)} :
        /\ state' = res.state
        /\ call' = Call("on_event", event, cursor, child_status,
                        content_cursor(state, cursor, widget), NoTarget,
                        res.status, res.published, state)
        /\ UNCHANGED <<widget, prev, probe>>

Wheel ==
    \E delta \in WheelDeltas, cursor \in Cursors(widget), child_status \in ChildStatuses :
        Deliver(WheelScrolled(delta), cursor, child_status)

Touch ==
    \E kind \in TouchKinds, cursor \in Cursors(widget), child_status \in ChildStatuses :
        Deliver(Plain(kind), cursor, child_status)

Mouse ==
    \E kind \in {"ButtonPressed", "ButtonReleased", "CursorMoved", "Other"},
       cursor \in Cursors(widget), child_status \in ChildStatuses :
        Deliver(Plain(kind), cursor, child_status)

Keyboard ==
    \E shift \in BOOLEAN, cursor \in Cursors(widget), child_status \in ChildStatuses :
        Deliver(ModifiersChanged(shift), cursor, child_status)

\* operation::scrollable::snap_to reaches State::snap_to through operate
SnapTo ==
    \E offset \in RelativeOffsets :
        /\ call.op = "none"
        /\ state' = State_snap_to(state, offset)
        /\ call' = Call("snap_to", Plain("Other"), Unavailable, "Ignored", Unavailable,
                        offset, "Ignored", 0, state)
        /\ UNCHANGED <<widget, prev, probe>>

\* operation::scrollable::scroll_to reaches State::scroll_to through operate
ScrollTo ==
    \E offset \in AbsoluteOffsets :
        /\ call.op = "none"
        /\ state' = State_scroll_to(state, offset)
        /\ call' = Call("scroll_to", Plain("Other"), Unavailable, "Ignored", Unavailable,
                        offset, "Ignored", 0, state)
        /\ UNCHANGED <<widget, prev, probe>>

\* the host takes the status and the published messages of the returned call
Drain ==
    /\ call.op # "none"
    /\ call' = NoCall
    /\ prev' = Taken(call)
    /\ UNCHANGED <<widget, state, probe>>

Next == Wheel \/ Touch \/ Mouse \/ Keyboard \/ SnapTo \/ ScrollTo \/ Drain

Spec == Init /\ [][Next]_vars

(***************************************************************************)
(* The pure functions of Offset, evaluated on arguments drawn from bounded *)
(* sets: stored values that are negative, zero, in range and huge, and     *)
(* extents with content smaller than, equal to and larger than the         *)
(* viewport.                                                               *)
(***************************************************************************)
StoredValues == {R(-1000), R(-5), R(0), Q(1, 2), R(1), R(6), R(200), R(1000)}

StoredOffsets == {Absolute(v) : v \in StoredValues} \cup {Relative(v) : v \in StoredValues}

Extents == {R(0), R(6), R(12), R(100), R(300)}

InitOffset ==
    /\ widget = Tall
    /\ state = State_default
    /\ call = NoCall
    /\ prev = Taken(NoCall)
    /\ probe = NoProbe

EvalAbsolute ==
    \E offset \in StoredOffsets, viewport \in Extents, content \in Extents :
        /\ probe' = Probe("absolute", offset, viewport, content,
                          Offset_absolute(offset, viewport, content))
        /\ UNCHANGED <<widget, state, call, prev>>

\* Offset::translation of one stored offset under both alignments
EvalTranslation ==
    \E offset \in StoredOffsets, viewport \in Extents, content \in Extents :
        /\ probe' = Probe("translation", offset, viewport, content,
                          [start |-> Offset_translation(offset, viewport, content, "Start"),
                           end |-> Offset_translation(offset, viewport, content, "End")])
        /\ UNCHANGED <<widget, state, call, prev>>

\* Viewport::relative_offset of a viewport with the same offset and the same
\* extents on both axes
EvalRelative ==
    \E offset \in StoredOffsets, viewport \in Extents, content \in Extents :
        /\ probe' = Probe("relative_offset", offset, viewport, content,
                          relative_offset(Viewport(offset, offset,
                              Rect(R(0), R(0), viewport, viewport),
                              Rect(R(0), R(0), content, content))))
        /\ UNCHANGED <<widget, state, call, prev>>

NextOffset == EvalAbsolute \/ EvalTranslation \/ EvalRelative

SpecOffset == InitOffset /\ [][NextOffset]_vars

(***************************************************************************)
(* Properties                                                              *)
(***************************************************************************)
\* the scroll range of an axis
Range(viewport, content) == Max(Sub(content, viewport), R(0))

InRange(v, viewport, content) == Le(R(0), v) /\ Le(v, Range(viewport, content))

Overflows(viewport, content) == Lt(viewport, content)

ContentFits ==
    /\ Le(widget.content_bounds.width, widget.bounds.width)
    /\ Le(widget.content_bounds.height, widget.bounds.height)

\* the alignment State::scroll uses for an axis
AlignmentX ==
    IF horizontal(widget.direction).some
    THEN horizontal(widget.direction).v.alignment ELSE "Start"

AlignmentY ==
    IF vertical(widget.direction).some
    THEN vertical(widget.direction).v.alignment ELSE "Start"

ViewportOf(s) ==
    Viewport(s.offset_x, s.offset_y, widget.bounds, widget.content_bounds)

\* two viewports with the same absolute and relative offsets, within epsilon
SameOffsets(a, b) ==
    /\ unchanged(relative_offset(a).x, relative_offset(b).x)
    /\ unchanged(relative_offset(a).y, relative_offset(b).y)
    /\ unchanged(absolute_offset(a).x, absolute_offset(b).x)
    /\ unchanged(absolute_offset(a).y, absolute_offset(b).y)

\* a wheel event the content did not capture, with the cursor over the viewport
WheelOverViewport(c) ==
    /\ c.op = "on_event" /\ c.event.kind = "WheelScrolled"
    /\ c.child_status = "Ignored"
    /\ position_over(c.cursor, widget.bounds).some

\* C1: after any sequence of events and snap_to / scroll_to calls, the absolute
\* offset read on each axis lies in [0, max(content - viewport, 0)] and is 0 on
\* every axis where the content does not exceed the viewport.
C1_OffsetsInRange ==
    LET o == Offsets(state)
        b == widget.bounds
        c == widget.content_bounds
    IN  /\ InRange(o.x, b.width, c.width)
        /\ InRange(o.y, b.height, c.height)
        /\ (Le(c.width, b.width) => o.x = R(0))
        /\ (Le(c.height, b.height) => o.y = R(0))

\* a scroll_to far beyond the range, after a wheel scroll: stored 1000, read 200
C1_Witness ==
    /\ widget = Tall
    /\ call.op = "scroll_to"
    /\ prev.wheel
    /\ state.offset_y = Absolute(R(1000))
    /\ Offsets(state).y = R(200)

\* C2: for every content extent >= 0, viewport extent >= 0 and every stored
\* value x, negative and huge ones included, Offset::Absolute(x).absolute(viewport,
\* content) is within [0, max(content - viewport, 0)].
C2_AbsoluteInRange ==
    (/\ probe.fn = "absolute"
     /\ probe.offset.kind = "Absolute"
     /\ Le(R(0), probe.viewport) /\ Le(R(0), probe.content))
    => InRange(probe.result, probe.viewport, probe.content)

\* C3: a wheel event in lines (dx, dy), not captured by the content, with the
\* cursor over the viewport and no shift held, sets the absolute offset of each
\* overflowing axis with Start alignment to clamp(old - 60 * d, 0, content -
\* viewport); with viewport height 100, content height 300 and dy = -10 the y
\* offset becomes 200 from rest, and stays 200 on a second such event.
C3_WheelLines ==
    LET b == widget.bounds
        c == widget.content_bounds
        d == call.event.delta
        old == Offsets(call.pre)
        new == Offsets(state)
    IN  (/\ WheelOverViewport(call)
         /\ d.unit = "Lines"
         /\ ~call.pre.keyboard_modifiers.shift)
        => /\ (Overflows(b.width, c.width) /\ AlignmentX = "Start")
                => new.x = Clamp(Sub(old.x, Mul(R(60), d.x)), R(0),
                                 Sub(c.width, b.width))
           /\ (Overflows(b.height, c.height) /\ AlignmentY = "Start")
                => new.y = Clamp(Sub(old.y, Mul(R(60), d.y)), R(0),
                                 Sub(c.height, b.height))
           /\ (/\ b.height = R(100) /\ c.height = R(300) /\ d.y = R(-10)
               /\ old.y \in {R(0), R(200)})
                => new.y = R(200)

\* the second wheel event of the scenario: the first one went from rest to 200
C3_Witness ==
    /\ widget = Tall
    /\ WheelOverViewport(call)
    /\ call.event.delta = Lines(R(0), R(-10))
    /\ ~call.pre.keyboard_modifiers.shift
    /\ prev.wheel /\ prev.published = 1 /\ prev.before = [x |-> R(0), y |-> R(0)]
    /\ Offsets(call.pre).y = R(200)
    /\ Offsets(state).y = R(200)

\* C4: once the viewport a wheel event scrolled to has been reported through
\* on_scroll, a further wheel event that leaves the absolute and relative
\* offsets equal to the last notified ones invokes on_scroll zero times and
\* leaves last_notified unchanged.
C4_NoRepeatedNotification ==
    (/\ IsWheel(call)
     /\ call.pre.last_notified.some
     /\ SameOffsets(ViewportOf(call.pre), call.pre.last_notified.v)
     /\ SameOffsets(ViewportOf(state), call.pre.last_notified.v))
    => /\ call.published = 0
       /\ state.last_notified = call.pre.last_notified

\* a wheel event at the clamp limit that a wheel event before it had reported
C4_Witness ==
    /\ widget = Tall
    /\ IsWheel(call)
    /\ call.event.delta = Lines(R(0), R(-10))
    /\ prev.wheel /\ prev.published = 1
    /\ call.pre.last_notified.some
    /\ Offsets(call.pre).y = R(200)
    /\ absolute_offset(call.pre.last_notified.v).y = R(200)
    /\ call.published = 0

\* C5, as stated: two consecutive wheel events whose net effect leaves the
\* offsets unchanged (the offsets after the second are those before the first)
\* produce at most one invocation of on_scroll.
C5_NetEffectAtMostOnce ==
    (/\ prev.wheel /\ prev.published > 0
     /\ IsWheel(call)
     /\ unchanged(Offsets(state).x, prev.before.x)
     /\ unchanged(Offsets(state).y, prev.before.y))
    => prev.published + call.published <= 1

\* C5, amended: two consecutive wheel events, the second of which leaves the
\* relative and absolute offsets as the first left them, produce at most one
\* invocation of on_scroll.
C5_SecondUnchangedAtMostOnce ==
    (/\ prev.wheel
     /\ IsWheel(call)
     /\ SameOffsets(ViewportOf(state), ViewportOf(call.pre)))
    => prev.published + call.published <= 1

\* the first wheel event was reported, the second changed nothing and was not
C5_Witness ==
    /\ prev.wheel /\ prev.published = 1
    /\ IsWheel(call)
    /\ SameOffsets(ViewportOf(state), ViewportOf(call.pre))
    /\ call.published = 0

\* C6: when the content fits within the viewport on both axes, no wheel, touch
\* or drag event ever invokes on_scroll.
C6_NoNotificationWhenContentFits ==
    ContentFits => (call.published = 0 /\ ~state.last_notified.some)

\* a touch pan over fitting content, with an on_scroll callback configured
C6_Witness ==
    /\ ContentFits
    /\ widget.on_scroll
    /\ call.op = "on_event" /\ call.event.kind = "FingerMoved"
    /\ call.pre.scroll_area_touched_at.some
    /\ call.cursor.some
    /\ call.cursor.v # call.pre.scroll_area_touched_at.v
    /\ call.status = "Captured"

\* C7: Scrollbars::new produces the vertical (horizontal) scrollbar if and only
\* if the direction configures that axis and the content extent strictly exceeds
\* the viewport extent on it; no scrollbar exists when the content fits.
C7_ScrollbarsShown ==
    LET b == widget.bounds
        c == widget.content_bounds
        kind == widget.direction.kind
        scrollbars == Scrollbars_new(state, widget.direction, b, c)
    IN  /\ scrollbars.y.some <=>
             (kind \in {"Vertical", "Both"} /\ Overflows(b.height, c.height))
        /\ scrollbars.x.some <=>
             (kind \in {"Horizontal", "Both"} /\ Overflows(b.width, c.width))
        /\ ContentFits => ~Scrollbars_active(scrollbars)

\* content that overflows on both axes of a horizontal scrollable
C7_Witness ==
    LET scrollbars == Scrollbars_new(state, widget.direction, widget.bounds,
                                     widget.content_bounds)
    IN  /\ widget.direction.kind = "Horizontal"
        /\ Overflows(widget.bounds.height, widget.content_bounds.height)
        /\ call.op = "on_event"
        /\ scrollbars.x.some /\ ~scrollbars.y.some

\* C8: after scroll_to with y larger than content height - viewport height, the
\* absolute y offset read from the state is the scroll range, content height -
\* viewport height where the content overflows (200 for viewport 100, content
\* 300, y = 1000), and never the requested value.
C8_ScrollToClampsOnRead ==
    LET b == widget.bounds
        c == widget.content_bounds
    IN  (/\ call.op = "scroll_to"
         /\ Lt(Sub(c.height, b.height), call.target.y))
        => /\ Offsets(state).y = Range(b.height, c.height)
           /\ Overflows(b.height, c.height)
                => Offsets(state).y = Sub(c.height, b.height)
           /\ (b.height = R(100) /\ c.height = R(300) /\ call.target.y = R(1000))
                => Offsets(state).y = R(200)
           /\ Offsets(state).y # call.target.y

\* scroll_to(y = 1000) on the 100 / 300 layout, from another offset
C8_Witness ==
    /\ widget = Tall
    /\ call.op = "scroll_to"
    /\ call.target.y = R(1000)
    /\ Offsets(call.pre).y # R(200)
    /\ Offsets(state).y = R(200)

\* C9: when the content returns Captured for an event, the scrollable returns
\* Captured with its own state untouched (offsets, grab anchors, touch anchor,
\* modifiers, last_notified) and on_scroll is not invoked.
C9_ChildCapturesFirst ==
    (call.op = "on_event" /\ call.child_status = "Captured")
    => /\ call.status = "Captured"
       /\ state = call.pre
       /\ call.published = 0

\* an event the scrollable would have acted on, captured by the content
C9_Witness ==
    /\ call.op = "on_event"
    /\ call.child_status = "Captured"
    /\ on_event(call.pre, call.event, call.cursor, "Ignored", widget).state # call.pre
    /\ on_event(call.pre, call.event, call.cursor, "Ignored", widget).published = 1

\* C10: the content receives a usable cursor, the cursor position plus the
\* scroll translation, only when the cursor is inside the viewport bounds and
\* not over a scrollbar's hit area; otherwise it sees the cursor as unavailable.
C10_ContentCursor ==
    LET b == widget.bounds
        c == widget.content_bounds
        scrollbars == Scrollbars_new(call.pre, widget.direction, b, c)
        translation == State_translation(call.pre, widget.direction, b, c)
        over_y == scrollbars.y.some /\ contains(scrollbars.y.v.total_bounds, call.cursor.v)
        over_x == scrollbars.x.some /\ contains(scrollbars.x.v.total_bounds, call.cursor.v)
        usable == call.cursor.some /\ contains(b, call.cursor.v) /\ ~over_y /\ ~over_x
    IN  call.op = "on_event"
        => /\ call.child_cursor.some <=> usable
           /\ call.child_cursor.some
                => call.child_cursor.v = Point(Add(call.cursor.v.x, translation.x),
                                               Add(call.cursor.v.y, translation.y))

\* a cursor over a scrollbar of scrolled content: the content does not see it
C10_Witness ==
    /\ call.op = "on_event"
    /\ call.cursor.some /\ contains(widget.bounds, call.cursor.v)
    /\ ~call.child_cursor.some
    /\ Offsets(call.pre) # [x |-> R(0), y |-> R(0)]

(***************************************************************************)
(* Modifiers and scroller drags                                            *)
(***************************************************************************)
ReleaseKinds == {"ButtonReleased", "FingerLifted", "FingerLost"}

PressKinds == {"ButtonPressed", "FingerPressed"}

MoveKinds == {"CursorMoved", "FingerMoved"}

\* the scrollbars on_event computes on entry, from the State before the call
ScrollbarsOf(s) ==
    Scrollbars_new(s, widget.direction, widget.bounds, widget.content_bounds)

\* C11, as stated: a ModifiersChanged event is recorded into the modifier
\* snapshot whatever the content does with it, and the scrollable never returns
\* Captured for it of its own accord.
C11_ModifiersAlwaysRecorded ==
    (call.op = "on_event" /\ call.event.kind = "ModifiersChanged")
    => /\ state.keyboard_modifiers = call.event.modifiers
       /\ (call.status = "Captured" => call.child_status = "Captured")

\* C12: while an axis is grabbed its anchor never changes, and the grab ends
\* only through a left-button release, finger-lifted or finger-lost event.
C12_GrabAnchorFixed ==
    LET ended == call.op = "on_event" /\ call.event.kind \in ReleaseKinds
    IN  call.op # "none"
        => /\ call.pre.y_scroller_grabbed_at.some
                => \/ state.y_scroller_grabbed_at = call.pre.y_scroller_grabbed_at
                   \/ ~state.y_scroller_grabbed_at.some /\ ended
           /\ call.pre.x_scroller_grabbed_at.some
                => \/ state.x_scroller_grabbed_at = call.pre.x_scroller_grabbed_at
                   \/ ~state.x_scroller_grabbed_at.some /\ ended

\* a press on the vertical scrollbar during a vertical drag, at a point that
\* would give another anchor
C12_Witness ==
    /\ call.op = "on_event" /\ call.event.kind \in PressKinds
    /\ call.child_status = "Ignored"
    /\ call.pre.y_scroller_grabbed_at.some
    /\ call.cursor.some
    /\ grab_y_scroller(ScrollbarsOf(call.pre), call.cursor.v).some
    /\ grab_y_scroller(ScrollbarsOf(call.pre), call.cursor.v) # call.pre.y_scroller_grabbed_at
    /\ state.y_scroller_grabbed_at = call.pre.y_scroller_grabbed_at

\* C13, as stated: whenever an axis is grabbed and a left-button release,
\* finger-lifted or finger-lost event is delivered, the axis is no longer
\* grabbed after the event.
C13_ReleaseEndsGrab ==
    (call.op = "on_event" /\ call.event.kind \in ReleaseKinds)
    => /\ call.pre.y_scroller_grabbed_at.some => ~state.y_scroller_grabbed_at.some
       /\ call.pre.x_scroller_grabbed_at.some => ~state.x_scroller_grabbed_at.some

\* C14: a release or loss event that ends a scroller drag leaves the stored
\* offsets of both axes as they were and publishes no on_scroll message.
C14_ReleaseKeepsOffsets ==
    (/\ call.op = "on_event" /\ call.event.kind \in ReleaseKinds
     /\ \/ call.pre.y_scroller_grabbed_at.some /\ ~state.y_scroller_grabbed_at.some
        \/ call.pre.x_scroller_grabbed_at.some /\ ~state.x_scroller_grabbed_at.some)
    => /\ state.offset_x = call.pre.offset_x
       /\ state.offset_y = call.pre.offset_y
       /\ call.published = 0
       /\ state.last_notified = call.pre.last_notified

\* a finger lifted at the end of a drag that had moved the content, on a
\* scrollable with an on_scroll callback
C14_Witness ==
    /\ widget.on_scroll
    /\ call.op = "on_event" /\ call.event.kind = "FingerLifted"
    /\ call.pre.y_scroller_grabbed_at.some
    /\ ~state.y_scroller_grabbed_at.some
    /\ Offsets(call.pre).y # R(0)

\* C15: a left-button or finger press inside a scrollbar's hit area, on an axis
\* that is not grabbed, marks the axis grabbed and is Captured; the anchor is
\* 1/2 when the cursor is outside the scroller and (cursor - scroller start) /
\* scroller length, a value in [0, 1), when it is inside.
C15_PressGrabs ==
    LET scrollbars == ScrollbarsOf(call.pre)
        p == call.cursor.v
        y == scrollbars.y.v
        x == scrollbars.x.v
        pressed == /\ call.op = "on_event" /\ call.event.kind \in PressKinds
                   /\ call.child_status = "Ignored" /\ call.cursor.some
    IN  /\ (/\ pressed /\ ~call.pre.y_scroller_grabbed_at.some
            /\ scrollbars.y.some /\ contains(y.total_bounds, p))
           => /\ call.status = "Captured"
              /\ state.y_scroller_grabbed_at.some
              /\ IF contains(y.scroller.bounds, p)
                 THEN /\ state.y_scroller_grabbed_at.v =
                            Div(Sub(p.y, y.scroller.bounds.y), y.scroller.bounds.height)
                      /\ Le(R(0), state.y_scroller_grabbed_at.v)
                      /\ Lt(state.y_scroller_grabbed_at.v, R(1))
                 ELSE state.y_scroller_grabbed_at.v = Q(1, 2)
        /\ (/\ pressed /\ ~call.pre.x_scroller_grabbed_at.some
            /\ scrollbars.x.some /\ contains(x.total_bounds, p))
           => /\ call.status = "Captured"
              /\ state.x_scroller_grabbed_at.some
              /\ IF contains(x.scroller.bounds, p)
                 THEN /\ state.x_scroller_grabbed_at.v =
                            Div(Sub(p.x, x.scroller.bounds.x), x.scroller.bounds.width)
                      /\ Le(R(0), state.x_scroller_grabbed_at.v)
                      /\ Lt(state.x_scroller_grabbed_at.v, R(1))
                 ELSE state.x_scroller_grabbed_at.v = Q(1, 2)

\* a press inside the vertical scroller, away from its middle
C15_Witness ==
    /\ call.op = "on_event" /\ call.event.kind \in PressKinds
    /\ call.child_status = "Ignored" /\ call.cursor.some
    /\ ~call.pre.y_scroller_grabbed_at.some
    /\ ScrollbarsOf(call.pre).y.some
    /\ contains(ScrollbarsOf(call.pre).y.v.scroller.bounds, call.cursor.v)
    /\ state.y_scroller_grabbed_at.some
    /\ state.y_scroller_grabbed_at.v # Q(1, 2)

\* a press that grabbed the vertical (horizontal) scroller, or a drag motion
\* while it was grabbed, handled by the scrollable
DraggedY ==
    /\ call.op = "on_event" /\ call.child_status = "Ignored" /\ call.cursor.some
    /\ ScrollbarsOf(call.pre).y.some
    /\ \/ /\ call.event.kind \in PressKinds
          /\ ~call.pre.y_scroller_grabbed_at.some /\ state.y_scroller_grabbed_at.some
       \/ call.event.kind \in MoveKinds /\ call.pre.y_scroller_grabbed_at.some

DraggedX ==
    /\ call.op = "on_event" /\ call.child_status = "Ignored" /\ call.cursor.some
    /\ ScrollbarsOf(call.pre).x.some
    /\ \/ /\ call.event.kind \in PressKinds
          /\ ~call.pre.x_scroller_grabbed_at.some /\ state.x_scroller_grabbed_at.some
       \/ call.event.kind \in MoveKinds /\ call.pre.x_scroller_grabbed_at.some

\* C16, as stated: immediately after a scroller press, and after every drag
\* motion while grabbed, the stored offset of the dragged axis is Relative.
C16_DraggedAxisRelative ==
    /\ DraggedY => state.offset_y.kind = "Relative"
    /\ DraggedX => state.offset_x.kind = "Relative"

\* C16, amended: after a scroller press, and after every drag motion while
\* grabbed, the stored offsets of both axes are Absolute, and that of the
\* dragged axis is the scroll range times the percentage clamped to [0, 1].
C16_DraggedAxisUnsnapped ==
    LET scrollbars == ScrollbarsOf(call.pre)
        b == widget.bounds
        c == widget.content_bounds
        percentage_y == scroll_percentage_y(scrollbars.y.v,
                            state.y_scroller_grabbed_at.v, call.cursor.v)
        percentage_x == scroll_percentage_x(scrollbars.x.v,
                            state.x_scroller_grabbed_at.v, call.cursor.v)
    IN  /\ DraggedY
           => /\ state.offset_y.kind = "Absolute" /\ state.offset_x.kind = "Absolute"
              /\ state.offset_y.v =
                    Max(Mul(Sub(c.height, b.height), Clamp(percentage_y, R(0), R(1))), R(0))
        /\ DraggedX
           => /\ state.offset_y.kind = "Absolute" /\ state.offset_x.kind = "Absolute"
              /\ state.offset_x.v =
                    Max(Mul(Sub(c.width, b.width), Clamp(percentage_x, R(0), R(1))), R(0))

\* a drag motion of the vertical scroller while the horizontal offset was
\* snapped: both offsets end Absolute
C16_Witness ==
    /\ DraggedY
    /\ call.event.kind \in MoveKinds
    /\ call.pre.offset_x.kind = "Relative"
    /\ state.offset_x.kind = "Absolute"
    /\ state.offset_y.kind = "Absolute"
    /\ state.offset_y.v # R(0)

\* C17, as stated: after any wheel scroll handled by the scrollable, the
\* stored offset of every axis is Absolute.
C17_WheelStoresAbsolute ==
    IsWheel(call)
    => state.offset_x.kind = "Absolute" /\ state.offset_y.kind = "Absolute"

\* C17, amended: after any wheel scroll handled by the scrollable, the stored
\* offset of every axis on which the content overflows is Absolute, also where
\* it was Relative before; an axis on which the content fits keeps its stored
\* offset.
C17_WheelStoresAbsoluteWhereOverflowing ==
    LET b == widget.bounds
        c == widget.content_bounds
    IN  IsWheel(call)
        => /\ IF Overflows(b.width, c.width)
              THEN state.offset_x.kind = "Absolute"
              ELSE state.offset_x = call.pre.offset_x
           /\ IF Overflows(b.height, c.height)
              THEN state.offset_y.kind = "Absolute"
              ELSE state.offset_y = call.pre.offset_y

\* a wheel scroll after snap_to, where the content overflows on both axes
C17_Witness ==
    /\ IsWheel(call)
    /\ Overflows(widget.bounds.width, widget.content_bounds.width)
    /\ Overflows(widget.bounds.height, widget.content_bounds.height)
    /\ call.pre.offset_x.kind = "Relative" /\ call.pre.offset_y.kind = "Relative"
    /\ state.offset_x.kind = "Absolute" /\ state.offset_y.kind = "Absolute"

\* C18: while an axis is grabbed, its offset changes only through cursor-move
\* or finger-move events; a wheel event, like every other event that is not a
\* move, leaves the offset of a grabbed axis as it was.
C18_DragSoleSource ==
    (/\ call.op = "on_event"
     /\ ~(call.event.kind \in MoveKinds))
    => /\ call.pre.y_scroller_grabbed_at.some
          => Offsets(state).y = Offsets(call.pre).y
       /\ call.pre.x_scroller_grabbed_at.some
          => Offsets(state).x = Offsets(call.pre).x

\* a finger move that reaches the touch handling during a touch pan
IsPan(c) ==
    /\ c.op = "on_event" /\ c.event.kind = "FingerMoved"
    /\ c.child_status = "Ignored" /\ c.cursor.some
    /\ c.pre.scroll_area_touched_at.some

\* the offset of an axis after a pan by delta: clamp(old - delta, 0, max) for
\* Start alignment, clamp(old + delta, 0, max) for End alignment
Panned(old, delta, alignment, viewport, content) ==
    Clamp(IF alignment = "End" THEN Add(old, delta) ELSE Sub(old, delta),
          R(0), Range(viewport, content))

AlignmentOf(properties) == IF properties.some THEN properties.v.alignment ELSE "Start"

\* C19: during a touch pan every finger move scrolls each axis that is not
\* being dragged by the delta between the stored anchor and the cursor
\* (clamp(old - (cursor - anchor), 0, max) for Start alignment), and then
\* stores the cursor position as the anchor, so that the next move scrolls by
\* the difference to this position and not to the press point.
C19_PanIsIncremental ==
    LET anchor == call.pre.scroll_area_touched_at.v
        cursor == call.cursor.v
        b == widget.bounds
        c == widget.content_bounds
    IN  IsPan(call)
        => /\ state.scroll_area_touched_at = Some(cursor)
           /\ ~call.pre.y_scroller_grabbed_at.some
              => Offsets(state).y =
                    Panned(Offsets(call.pre).y, Sub(cursor.y, anchor.y),
                           AlignmentOf(vertical(widget.direction)), b.height, c.height)
           /\ ~call.pre.x_scroller_grabbed_at.some
              => Offsets(state).x =
                    Panned(Offsets(call.pre).x, Sub(cursor.x, anchor.x),
                           AlignmentOf(horizontal(widget.direction)), b.width, c.width)

\* a finger move of a pan that has already scrolled: the anchor is no longer
\* where the offsets were zero, and the move scrolls both axes from there
C19_Witness ==
    /\ IsPan(call)
    /\ ~call.pre.y_scroller_grabbed_at.some /\ ~call.pre.x_scroller_grabbed_at.some
    /\ call.cursor.v # call.pre.scroll_area_touched_at.v
    /\ Offsets(call.pre) # NoTarget
    /\ Offsets(state).x # Offsets(call.pre).x
    /\ Offsets(state).y # Offsets(call.pre).y
    /\ state.scroll_area_touched_at = Some(call.cursor.v)

\* C20: whenever a touch pan is in progress and a finger-lifted or finger-lost
\* event reaches the scrollable without being captured by the child, the touch
\* anchor is cleared and no scroller stays grabbed; the anchor is set again
\* only by a finger press, and a finger move that finds no anchor and no
\* grabbed scroller, as the one that follows the lift does, changes no offset.
C20_LiftEndsPan ==
    /\ IsLift(call)
       => /\ ~state.scroll_area_touched_at.some
          /\ ~state.y_scroller_grabbed_at.some /\ ~state.x_scroller_grabbed_at.some
    /\ (/\ call.op # "none"
        /\ ~call.pre.scroll_area_touched_at.some /\ state.scroll_area_touched_at.some)
       => call.op = "on_event" /\ call.event.kind = "FingerPressed"
    /\ (/\ call.op = "on_event" /\ call.event.kind = "FingerMoved"
        /\ \/ prev.lifted
           \/ /\ ~call.pre.scroll_area_touched_at.some
              /\ ~call.pre.y_scroller_grabbed_at.some
              /\ ~call.pre.x_scroller_grabbed_at.some)
       => /\ state.offset_x = call.pre.offset_x /\ state.offset_y = call.pre.offset_y
          /\ ~state.scroll_area_touched_at.some

\* a pan has scrolled, the finger was lifted, and the next event is a finger
\* move at another position that the content does not capture
C20_Witness ==
    /\ prev.lifted
    /\ call.op = "on_event" /\ call.event.kind = "FingerMoved"
    /\ call.child_status = "Ignored" /\ call.cursor.some
    /\ Offsets(call.pre).x # R(0)
    /\ content_cursor(call.pre, call.cursor, widget).some
    /\ state.offset_x = call.pre.offset_x /\ state.offset_y = call.pre.offset_y

(***************************************************************************)
(* Round trips and algebraic relations                                     *)
(***************************************************************************)
\* a press that grabs the vertical scroller with the cursor inside it
PressedInScrollerY ==
    /\ call.op = "on_event" /\ call.event.kind \in PressKinds
    /\ call.child_status = "Ignored" /\ call.cursor.some
    /\ ~call.pre.y_scroller_grabbed_at.some /\ state.y_scroller_grabbed_at.some
    /\ ScrollbarsOf(call.pre).y.some
    /\ contains(ScrollbarsOf(call.pre).y.v.scroller.bounds, call.cursor.v)

PressedInScrollerX ==
    /\ call.op = "on_event" /\ call.event.kind \in PressKinds
    /\ call.child_status = "Ignored" /\ call.cursor.some
    /\ ~call.pre.x_scroller_grabbed_at.some /\ state.x_scroller_grabbed_at.some
    /\ ScrollbarsOf(call.pre).x.some
    /\ contains(ScrollbarsOf(call.pre).x.v.scroller.bounds, call.cursor.v)

\* C21: pressing on the scroller at any cursor position inside it, without
\* moving, does not change the absolute offset of that axis, for both Start
\* and End alignment.
C21_PressKeepsOffset ==
    /\ PressedInScrollerY => Offsets(state).y = Offsets(call.pre).y
    /\ PressedInScrollerX => Offsets(state).x = Offsets(call.pre).x

(***************************************************************************)
(* Presses on the scrollbars of a scrollable that has been scrolled: the   *)
(* offsets before the press are drawn from the scroll range of each axis,  *)
(* and the cursors include a point in the middle of Long's scrollbar,      *)
(* whose scroller has the minimum length.                                  *)
(***************************************************************************)
ScrolledTo == {R(0), R(4), R(16)}

PressCursors(w) ==
    IF w.name = "Long" THEN Cursors(w) \cup {Available(Point(R(7), R(4)))}
    ELSE Cursors(w)

InitPress ==
    /\ widget \in Widgets
    /\ \E x \in ScrolledTo, y \in ScrolledTo :
        /\ InRange(x, widget.bounds.width, widget.content_bounds.width)
        /\ InRange(y, widget.bounds.height, widget.content_bounds.height)
        /\ state = [State_default EXCEPT !.offset_x = Absolute(x),
                                         !.offset_y = Absolute(y)]
    /\ call = NoCall
    /\ prev = Taken(NoCall)
    /\ probe = NoProbe

Press ==
    \E kind \in PressKinds, cursor \in PressCursors(widget),
       child_status \in ChildStatuses :
        Deliver(Plain(kind), cursor, child_status)

NextPress == Press \/ Drain

SpecPress == InitPress /\ [][NextPress]_vars

(***************************************************************************)
(* State::unsnap, State::snap_to and Offset::translation applied to stored *)
(* offsets the writers can leave behind: Relative percentages in [0, 1]    *)
(* and non-negative Absolute values, also beyond the scroll range.         *)
(***************************************************************************)
WrittenOffsets ==
    {Relative(v) : v \in {R(0), Q(1, 2), R(1)}}
    \cup {Absolute(v) : v \in {R(0), Q(1, 2), R(6), R(200), R(1000)}}

InitUnsnap ==
    /\ widget \in Widgets
    /\ \E x \in WrittenOffsets, y \in WrittenOffsets :
        state = [State_default EXCEPT !.offset_x = x, !.offset_y = y]
    /\ call = NoCall
    /\ prev = Taken(NoCall)
    /\ probe = NoProbe

\* a caller of State::unsnap passes the bounds of the layout
Unsnap ==
    /\ call.op \in {"none", "unsnap"}
    /\ state' = State_unsnap(state, widget.bounds, widget.content_bounds)
    /\ call' = Call("unsnap", Plain("Other"), Unavailable, "Ignored", Unavailable,
                    NoTarget, "Ignored", 0, state)
    /\ UNCHANGED <<widget, prev, probe>>

\* percentages below, inside and above [0, 1]
SnapPercentages == {R(-1), Q(1, 4), R(2)}

\* operation::scrollable::snap_to with any RelativeOffset
Snap ==
    \E x \in SnapPercentages, y \in SnapPercentages :
        /\ state' = State_snap_to(state, [x |-> x, y |-> y])
        /\ call' = Call("snap_to", Plain("Other"), Unavailable, "Ignored", Unavailable,
                        [x |-> x, y |-> y], "Ignored", 0, state)
        /\ UNCHANGED <<widget, prev, probe>>

NextUnsnap == Unsnap \/ Snap

SpecUnsnap == InitUnsnap /\ [][NextUnsnap]_vars

\* C22: calling unsnap twice in a row with the same viewport and content
\* bounds yields the same absolute offsets on both axes, and the same stored
\* offsets, as calling it once.
C22_UnsnapIdempotent ==
    call.op = "unsnap"
    => Let(State_unsnap(state, widget.bounds, widget.content_bounds), LAMBDA twice :
           /\ Offsets(twice) = Offsets(state)
           /\ twice.offset_x = state.offset_x /\ twice.offset_y = state.offset_y
           /\ Offsets(state) = Offsets(call.pre))

\* unsnap of a state that was snapped on both axes, away from the start
C22_Witness ==
    /\ call.op = "unsnap"
    /\ call.pre.offset_x.kind = "Relative" /\ call.pre.offset_y.kind = "Relative"
    /\ state.offset_x.kind = "Absolute" /\ state.offset_y.kind = "Absolute"
    /\ Offsets(state).x # R(0) /\ Offsets(state).y # R(0)

\* an offset the State can hold: a percentage in [0, 1] or an absolute value
Storable(offset) ==
    offset.kind = "Absolute" \/ (Le(R(0), offset.v) /\ Le(offset.v, R(1)))

\* C23: for every stored offset and every viewport and content extent, the
\* translation under Alignment::End equals max(content - viewport, 0) minus
\* the translation under Alignment::Start for the same stored value.
C23_EndReflectsStart ==
    (probe.fn = "translation" /\ Storable(probe.offset))
    => probe.result.end =
          Sub(Range(probe.viewport, probe.content), probe.result.start)

\* an offset strictly inside the scroll range, away from its middle
C23_Witness ==
    /\ probe.fn = "translation" /\ Storable(probe.offset)
    /\ Lt(R(0), probe.result.start) /\ Lt(R(0), probe.result.end)
    /\ probe.result.start # probe.result.end

\* C24: snap_to(RelativeOffset{x, y}) overwrites both axes with the
\* percentages clamped to [0, 1], so that the absolute offset read afterwards
\* on each axis is clamp(p, 0, 1) * max(content - viewport, 0), whatever the
\* offsets were before.
C24_SnapToClamps ==
    LET b == widget.bounds
        c == widget.content_bounds
        px == Clamp(call.target.x, R(0), R(1))
        py == Clamp(call.target.y, R(0), R(1))
    IN  call.op = "snap_to"
        => /\ state.offset_x = Relative(px) /\ state.offset_y = Relative(py)
           /\ Offsets(state).x = Mul(px, Range(b.width, c.width))
           /\ Offsets(state).y = Mul(py, Range(b.height, c.height))

\* snap_to with one percentage above 1 and one inside [0, 1], over offsets
\* that were absolute and elsewhere
C24_Witness ==
    /\ call.op = "snap_to"
    /\ Lt(R(1), call.target.y) /\ Lt(R(0), call.target.x) /\ Lt(call.target.x, R(1))
    /\ call.pre.offset_x.kind = "Absolute" /\ call.pre.offset_y.kind = "Absolute"
    /\ Offsets(call.pre).y # Offsets(state).y
    /\ Offsets(call.pre).x # Offsets(state).x
    /\ Offsets(state).y = Range(widget.bounds.height, widget.content_bounds.height)
    /\ Lt(R(0), Offsets(state).x)

(***************************************************************************)
(* PickList (pick_list.rs).  The variables hold the pick list, its State   *)
(* in the widget tree and the last call; a Message is "on_open",           *)
(* "on_close" or on_select applied to an option.                           *)
(***************************************************************************)
NoneOption == [some |-> FALSE, v |-> ""]

NoneIndex == [some |-> FALSE, v |-> 0]

OnOpen == [msg |-> "on_open", option |-> ""]

OnClose == [msg |-> "on_close", option |-> ""]

OnSelect(option) == [msg |-> "on_select", option |-> option]

PickList(options, selected, on_open, on_close, bounds) ==
    [name |-> "PickList", options |-> options, selected |-> selected,
     on_open |-> on_open, on_close |-> on_close, bounds |-> bounds]

PickList_State_new ==
    [keyboard_modifiers |-> [command |-> FALSE],
     is_open |-> FALSE,
     hovered_option |-> NoneIndex]

\* the result of a call: the State, the returned status, the published messages
PickResult(s, status, published) ==
    [state |-> s, status |-> status, published |-> published]

\* Iterator::position: the index, from 0, of the first option equal to the
\* selected one
PickList_position(options, selected) ==
    IF selected.some /\ \E i \in DOMAIN options : options[i] = selected.v
    THEN Some((CHOOSE i \in DOMAIN options :
                  /\ options[i] = selected.v
                  /\ \A j \in DOMAIN options : options[j] = selected.v => i <= j) - 1)
    ELSE NoneIndex

Reversed(options) == [i \in DOMAIN options |-> options[Len(options) + 1 - i]]

\* find_next: the option after the first one equal to the selected one
find_next(selected, options) ==
    Let(PickList_position(options, Some(selected)), LAMBDA found :
        IF found.some /\ found.v + 2 <= Len(options)
        THEN Some(options[found.v + 2])
        ELSE NoneOption)

PickList_on_event_press(self, s, cursor) ==
    IF s.is_open
    THEN PickResult([s EXCEPT !.is_open = FALSE],
                    "Captured",
                    IF self.on_close THEN <<OnClose>> ELSE <<>>)
    ELSE IF position_over(cursor, self.bounds).some
    THEN PickResult([s EXCEPT !.is_open = TRUE,
                              !.hovered_option =
                                  PickList_position(self.options, self.selected)],
                    "Captured",
                    IF self.on_open THEN <<OnOpen>> ELSE <<>>)
    ELSE PickResult(s, "Ignored", <<>>)

\* mutant: the wheel directions are exchanged
PickList_on_event_wheel_reversed(self, s, event, cursor) ==
    IF event.delta.unit # "Lines" THEN PickResult(s, "Ignored", <<>>)
    ELSE IF /\ s.keyboard_modifiers.command
            /\ position_over(cursor, self.bounds).some
            /\ ~s.is_open
    THEN Let(IF Lt(R(0), event.delta.y)
             THEN IF self.selected.some
                  THEN find_next(self.selected.v, self.options)
                  ELSE IF Len(self.options) > 0 THEN Some(self.options[1])
                  ELSE NoneOption
             ELSE IF Lt(event.delta.y, R(0))
             THEN IF self.selected.some
                  THEN find_next(self.selected.v, Reversed(self.options))
                  ELSE IF Len(self.options) > 0
                  THEN Some(self.options[Len(self.options)])
                  ELSE NoneOption
             ELSE NoneOption,
             LAMBDA next_option :
                PickResult(s, "Captured",
                           IF next_option.some THEN <<OnSelect(next_option.v)>>
                           ELSE <<>>))
    ELSE PickResult(s, "Ignored", <<>>)

PickList_on_event_wheel(self, s, event, cursor) ==
    IF event.delta.unit # "Lines" THEN PickResult(s, "Ignored", <<>>)
    ELSE IF /\ s.keyboard_modifiers.command
            /\ position_over(cursor, self.bounds).some
            /\ ~s.is_open
    THEN Let(IF Lt(event.delta.y, R(0))
             THEN IF self.selected.some
                  THEN find_next(self.selected.v, self.options)
                  ELSE IF Len(self.options) > 0 THEN Some(self.options[1])
                  ELSE NoneOption
             ELSE IF Lt(R(0), event.delta.y)
             THEN IF self.selected.some
                  THEN find_next(self.selected.v, Reversed(self.options))
                  ELSE IF Len(self.options) > 0
                  THEN Some(self.options[Len(self.options)])
                  ELSE NoneOption
             ELSE NoneOption,
             LAMBDA next_option :
                PickResult(s, "Captured",
                           IF next_option.some THEN <<OnSelect(next_option.v)>>
                           ELSE <<>>))
    ELSE PickResult(s, "Ignored", <<>>)

PickList_on_event(self, s, event, cursor) ==
    CASE event.kind \in PressKinds -> PickList_on_event_press(self, s, cursor)
      [] event.kind = "WheelScrolled" -> PickList_on_event_wheel(self, s, event, cursor)
      [] event.kind = "ModifiersChanged" ->
            PickResult([s EXCEPT !.keyboard_modifiers = event.modifiers],
                       "Ignored", <<>>)
      [] OTHER -> PickResult(s, "Ignored", <<>>)

\* the closure that overlay hands to the Menu, called with the chosen option;
\* the Menu publishes the message it returns
PickList_overlay_on_selected(self, s, option) ==
    PickResult([s EXCEPT !.is_open = FALSE], "Captured", <<OnSelect(option)>>)

PickOptions == {<<"A", "B", "C">>, <<"A", "B", "A">>, <<>>}

PickSelections == {NoneOption, Some("A"), Some("B"), Some("C"), Some("Z")}

PickBounds == Rect(R(0), R(0), R(10), R(4))

PickLists ==
    {PickList(options, selected, on_open, on_close, PickBounds) :
        options \in PickOptions, selected \in PickSelections,
        on_open \in BOOLEAN, on_close \in BOOLEAN}

PickCursors == {Available(Point(R(5), R(2))), Available(Point(R(20), R(2))), Unavailable}

PickWheelDeltas == {Lines(R(0), R(-1)), Lines(R(0), R(0)), Lines(R(1), R(1)),
                    Pixels(R(0), R(-1))}

PickCall(op, event, cursor, status, published, pre) ==
    [op |-> op, event |-> event, cursor |-> cursor, status |-> status,
     published |-> published, pre |-> pre]

NoPickCall ==
    PickCall("none", Plain("Other"), Unavailable, "Ignored", <<>>, PickList_State_new)

InitPick ==
    /\ widget \in PickLists
    /\ state = PickList_State_new
    /\ call = NoPickCall
    /\ prev = Taken(NoCall)
    /\ probe = NoProbe

\* the runtime delivers an event that the overlay did not capture
PickDeliver(event, cursor) ==
    /\ state' = PickList_on_event(widget, state, event, cursor).state
    /\ call' = PickCall("on_event", event, cursor,
                        PickList_on_event(widget, state, event, cursor).status,
                        PickList_on_event(widget, state, event, cursor).published,
                        state)
    /\ UNCHANGED <<widget, prev, probe>>

PickPress ==
    \E kind \in PressKinds, cursor \in PickCursors : PickDeliver(Plain(kind), cursor)

PickWheel ==
    \E delta \in PickWheelDeltas, cursor \in PickCursors :
        PickDeliver(WheelScrolled(delta), cursor)

\* keyboard::Event::ModifiersChanged with or without the command modifier
CommandChanged(command) ==
    [kind |-> "ModifiersChanged", delta |-> Lines(R(0), R(0)),
     modifiers |-> [command |-> command]]

PickKeyboard ==
    \E command \in BOOLEAN, cursor \in PickCursors :
        PickDeliver(CommandChanged(command), cursor)

PickOther ==
    \E cursor \in PickCursors : PickDeliver(Plain("CursorMoved"), cursor)

\* the user chooses an option in the drop-down menu of the open pick list
PickChoose ==
    /\ state.is_open
    /\ \E i \in DOMAIN widget.options :
        \E res \in {PickList_overlay_on_selected(widget, state, widget.options[i])} :
            /\ state' = res.state
            /\ call' = PickCall("on_selected", Plain("ButtonPressed"),
                                Unavailable, res.status, res.published, state)
            /\ UNCHANGED <<widget, prev, probe>>

NextPick == PickPress \/ PickWheel \/ PickKeyboard \/ PickOther \/ PickChoose

SpecPick == InitPick /\ [][NextPick]_vars

Published(message) == \E i \in DOMAIN call.published : call.published[i] = message

\* C25: whenever a pick list goes from open to closed, the configured on_close
\* message is published, both when a press closes it and when choosing an
\* option in the drop-down menu closes it.
C25_CloseNotifies ==
    (/\ call.op # "none" /\ call.pre.is_open /\ ~state.is_open
     /\ widget.on_close)
    => Published(OnClose)

(***************************************************************************)
(* Scrollable::with_direction_and_style.  debug_assert! checks its         *)
(* condition only in a build with debug assertions; a build without them   *)
(* compiles the check out.                                                 *)
(***************************************************************************)
Lengths == {"Fill", "FillPortion", "Shrink", "Fixed"}

\* Length::is_fill
is_fill(length) == length \in {"Fill", "FillPortion"}

\* the outcome of the constructor: a panic, or the Scrollable
with_direction_and_style(size_hint, direction, debug_assertions) ==
    IF debug_assertions
       /\ ~(~vertical(direction).some \/ ~is_fill(size_hint.height))
    THEN [panicked |-> TRUE,
          message |-> "scrollable content must not fill its vertical scrolling axis"]
    ELSE IF debug_assertions
            /\ ~(~horizontal(direction).some \/ ~is_fill(size_hint.width))
    THEN [panicked |-> TRUE,
          message |-> "scrollable content must not fill its horizontal scrolling axis"]
    ELSE [panicked |-> FALSE, message |-> "",
          width |-> "Shrink", height |-> "Shrink", direction |-> direction,
          content |-> size_hint, on_scroll |-> FALSE]

Construction(size_hint, direction, debug_assertions, result) ==
    [fn |-> "with_direction_and_style", size_hint |-> size_hint,
     direction |-> direction, debug_assertions |-> debug_assertions,
     result |-> result]

InitNew ==
    /\ widget = Tall
    /\ state = State_default
    /\ call = NoCall
    /\ prev = Taken(NoCall)
    /\ probe = NoProbe

New ==
    \E width \in Lengths, height \in Lengths, w \in Widgets,
       debug_assertions \in BOOLEAN :
        /\ probe' = Construction([width |-> width, height |-> height], w.direction,
                                 debug_assertions,
                                 with_direction_and_style(
                                     [width |-> width, height |-> height],
                                     w.direction, debug_assertions))
        /\ UNCHANGED <<widget, state, call, prev>>

NextNew == New

SpecNew == InitNew /\ [][NextNew]_vars

\* the content asks to fill an axis that the scrollable scrolls
FillsScrolledAxis ==
    /\ probe.fn = "with_direction_and_style"
    /\ \/ vertical(probe.direction).some /\ is_fill(probe.size_hint.height)
       \/ horizontal(probe.direction).some /\ is_fill(probe.size_hint.width)

\* C26: constructing a scrollable whose content requests to fill an axis that
\* the scrollable controls always ends in an assertion failure and never
\* yields a usable widget.
C26_FillAlwaysPanics ==
    FillsScrolledAxis => probe.result.panicked

(***************************************************************************)
(* Wheel events and drags                                                  *)
(***************************************************************************)
\* the call applied the scroll delta (dx, dy), in pixels, to the old offsets
WheelApplied(dx, dy) ==
    /\ Offsets(state).x =
          Panned(Offsets(call.pre).x, dx, AlignmentX,
                 widget.bounds.width, widget.content_bounds.width)
    /\ Offsets(state).y =
          Panned(Offsets(call.pre).y, dy, AlignmentY,
                 widget.bounds.height, widget.content_bounds.height)

Scaled(v) == Mul(v, R(LineHeight))

C28_WheelCapture ==
    (/\ call.op = "on_event" /\ call.event.kind = "WheelScrolled"
     /\ call.child_status = "Ignored")
    => IF position_over(call.cursor, widget.bounds).some
       THEN call.status = "Captured"
       ELSE call.status = "Ignored" /\ state = call.pre /\ call.published = 0

\* a wheel event over a scrollable whose content fits: captured although the
\* offsets stay where they were
C28_Witness ==
    /\ WheelOverViewport(call)
    /\ ContentFits
    /\ call.event.delta.y # R(0)
    /\ Offsets(state) = Offsets(call.pre)
    /\ call.status = "Captured"

\* the delta that the call handed to State::scroll: of a wheel event, or of a
\* finger move of a touch pan
ScrollDelta ==
    LET d == call.event.delta
        anchor == call.pre.scroll_area_touched_at.v
    IN  IF call.event.kind = "WheelScrolled"
        THEN IF d.unit = "Lines"
             THEN IF call.pre.keyboard_modifiers.shift
                  THEN [x |-> Scaled(d.y), y |-> Scaled(d.x)]
                  ELSE [x |-> Scaled(d.x), y |-> Scaled(d.y)]
             ELSE [x |-> d.x, y |-> d.y]
        ELSE [x |-> Sub(call.cursor.v.x, anchor.x), y |-> Sub(call.cursor.v.y, anchor.y)]

\* the call scrolled by State::scroll and by nothing else
Scrolled ==
    \/ WheelOverViewport(call)
    \/ /\ IsPan(call)
       /\ ~call.pre.y_scroller_grabbed_at.some /\ ~call.pre.x_scroller_grabbed_at.some

TranslationX(s) ==
    Offset_translation(s.offset_x, widget.bounds.width, widget.content_bounds.width,
                       AlignmentX)

TranslationY(s) ==
    Offset_translation(s.offset_y, widget.bounds.height, widget.content_bounds.height,
                       AlignmentY)

\* C29: the visual effect of a scroll is independent of alignment: for both
\* Start and End alignment, scroll(delta) on an overflowing axis changes that
\* axis's translation from t to clamp(t - delta, 0, content - viewport).
C29_ScrollMovesTranslation ==
    LET b == widget.bounds
        c == widget.content_bounds
    IN  Scrolled
        => /\ Overflows(b.width, c.width)
              => TranslationX(state) =
                    Clamp(Sub(TranslationX(call.pre), ScrollDelta.x),
                          R(0), Sub(c.width, b.width))
           /\ Overflows(b.height, c.height)
              => TranslationY(state) =
                    Clamp(Sub(TranslationY(call.pre), ScrollDelta.y),
                          R(0), Sub(c.height, b.height))

\* a scroll that moves the translation of an End-aligned axis to a place
\* strictly inside the scroll range
C29_Witness ==
    /\ Scrolled
    /\ \/ /\ AlignmentX = "End"
          /\ TranslationX(state) # TranslationX(call.pre)
          /\ Lt(R(0), TranslationX(state))
          /\ Lt(TranslationX(state),
                Range(widget.bounds.width, widget.content_bounds.width))
       \/ /\ AlignmentY = "End"
          /\ TranslationY(state) # TranslationY(call.pre)
          /\ Lt(R(0), TranslationY(state))
          /\ Lt(TranslationY(state),
                Range(widget.bounds.height, widget.content_bounds.height))


(***************************************************************************)
(* Drags across a change of layout: on_event reads the bounds of the       *)
(* scrollable and of its content from the layout it is handed on every     *)
(* call, so the content can have shrunk to fit the viewport while a        *)
(* scroller is still grabbed.                                              *)
(***************************************************************************)
\* a cursor-move or finger-move event
Drag ==
    \E kind \in MoveKinds, cursor \in PressCursors(widget),
       child_status \in ChildStatuses :
        Deliver(Plain(kind), cursor, child_status)

\* the content is laid out again and now fits the viewport
Relayout ==
    /\ call.op = "none"
    /\ widget.content_bounds # widget.bounds
    /\ widget' = [widget EXCEPT !.content_bounds = widget.bounds]
    /\ UNCHANGED <<state, call, prev, probe>>

NextDrag == Press \/ Drag \/ Relayout \/ Drain

SpecDrag == InitPress /\ [][NextDrag]_vars

\* a cursor-move or finger-move event that carries a cursor position and
\* reaches the scrollable while the vertical (horizontal) scroller is grabbed
GrabbedMoveY ==
    /\ call.op = "on_event" /\ call.event.kind \in MoveKinds
    /\ call.child_status = "Ignored" /\ call.cursor.some
    /\ call.pre.y_scroller_grabbed_at.some

GrabbedMoveX ==
    /\ call.op = "on_event" /\ call.event.kind \in MoveKinds
    /\ call.child_status = "Ignored" /\ call.cursor.some
    /\ call.pre.x_scroller_grabbed_at.some

\* the vertical (horizontal) offset is the scroll range times the percentage
\* computed from the grab anchor and the cursor, clamped to [0, 1]
SetFromAnchorY ==
    /\ ScrollbarsOf(call.pre).y.some
    /\ state.y_scroller_grabbed_at = call.pre.y_scroller_grabbed_at
    /\ Offsets(state).y =
          Max(Mul(Sub(widget.content_bounds.height, widget.bounds.height),
                  Clamp(scroll_percentage_y(ScrollbarsOf(call.pre).y.v,
                            call.pre.y_scroller_grabbed_at.v, call.cursor.v),
                        R(0), R(1))), R(0))

SetFromAnchorX ==
    /\ ScrollbarsOf(call.pre).x.some
    /\ state.x_scroller_grabbed_at = call.pre.x_scroller_grabbed_at
    /\ Offsets(state).x =
          Max(Mul(Sub(widget.content_bounds.width, widget.bounds.width),
                  Clamp(scroll_percentage_x(ScrollbarsOf(call.pre).x.v,
                            call.pre.x_scroller_grabbed_at.v, call.cursor.v),
                        R(0), R(1))), R(0))

\* C30: while an axis is grabbed, every cursor-move or finger-move event that
\* carries a cursor position sets that axis's offset to the percentage
\* computed from the fixed grab anchor and the current cursor position,
\* clamped to [0, 1], and is Captured, identically for the vertical and the
\* horizontal axis.
C30_GrabbedMoveDrags ==
    /\ GrabbedMoveY => (call.status = "Captured" /\ SetFromAnchorY)
    /\ GrabbedMoveX => (call.status = "Captured" /\ SetFromAnchorX)

\* C30, where the scrollbar of the grabbed axis is still shown: the move sets
\* the offset from the anchor and is Captured, on either axis.
C30_GrabbedMoveDragsWhereShown ==
    /\ (GrabbedMoveY /\ ScrollbarsOf(call.pre).y.some)
       => (call.status = "Captured" /\ SetFromAnchorY)
    /\ (GrabbedMoveX /\ ScrollbarsOf(call.pre).x.some)
       => (call.status = "Captured" /\ SetFromAnchorX)

\* C30, the horizontal axis alone: a move while it is grabbed is Captured
\* whether or not its scrollbar is shown.
C30_HorizontalMoveCaptured ==
    GrabbedMoveX => call.status = "Captured"

\* C30, the vertical axis alone: a move while it is grabbed is Captured
\* whether or not its scrollbar is shown.
C30_VerticalMoveCaptured ==
    GrabbedMoveY => call.status = "Captured"


(***************************************************************************)
(* Presses around the corner of a scrollable that shows both scrollbars,   *)
(* for scrollbars of several widths, margins and scroller widths and for   *)
(* a viewport lower than the horizontal scrollbar.                         *)
(***************************************************************************)
CornerVerticals ==
    {Properties(w, m, s, "Start") : w \in {R(1), R(2)}, m \in {R(-1), R(0), R(1)},
                                    s \in {R(1), R(3)}}

CornerHorizontals ==
    {Properties(w, m, s, "Start") : w \in {R(1), R(2)}, m \in {R(0), R(1)},
                                    s \in {R(1), R(3)}}

CornerLayouts ==
    {[bounds |-> Rect(R(0), R(0), R(12), R(12)),
      content_bounds |-> Rect(R(0), R(0), R(24), R(24))],
     [bounds |-> Rect(R(0), R(0), R(12), R(3)),
      content_bounds |-> Rect(R(0), R(0), R(24), R(6))]}

CornerWidgets ==
    {Widget("Corner", Both(v, h), l.bounds, l.content_bounds, FALSE) :
        v \in CornerVerticals, h \in CornerHorizontals, l \in CornerLayouts}

CornerCoordinates == {R(0), R(2), R(8), R(9), R(10), R(11)}

CornerCursors ==
    {Available(Point(x, y)) : x \in CornerCoordinates, y \in CornerCoordinates}

InitCorner ==
    /\ widget \in CornerWidgets
    /\ state = State_default
    /\ call = NoCall
    /\ prev = Taken(NoCall)
    /\ probe = NoProbe

PressCorner ==
    \E kind \in PressKinds, cursor \in CornerCursors, child_status \in ChildStatuses :
        Deliver(Plain(kind), cursor, child_status)

NextCorner == PressCorner

SpecCorner == InitCorner /\ [][NextCorner]_vars

\* two rectangles, half-open like Rectangle::contains, share a point
Overlap(a, b) ==
    /\ Lt(Max(a.x, b.x), Min(Add(a.x, a.width), Add(b.x, b.width)))
    /\ Lt(Max(a.y, b.y), Min(Add(a.y, a.height), Add(b.y, b.height)))

\* a press on a scrollable that shows both scrollbars, with margins >= 0
PressedWithBothShown ==
    /\ call.op = "on_event" /\ call.event.kind \in PressKinds
    /\ ScrollbarsOf(call.pre).y.some /\ ScrollbarsOf(call.pre).x.some
    /\ Le(R(0), widget.direction.vertical.margin)
    /\ Le(R(0), widget.direction.horizontal.margin)

\* C31: when both scrollbars are shown and margins are non-negative, the
\* vertical and horizontal tracks do not overlap, no cursor position lies
\* inside both scrollbars' hit areas, and a single press starts a grab on at
\* most one axis.
C31_OneAxisPerPress ==
    PressedWithBothShown
    => Let(ScrollbarsOf(call.pre), LAMBDA scrollbars :
        /\ ~Overlap(scrollbars.y.v.bounds, scrollbars.x.v.bounds)
        /\ ~Overlap(scrollbars.y.v.total_bounds, scrollbars.x.v.total_bounds)
        /\ \A cursor \in CornerCursors :
             ~(/\ Scrollbar_is_mouse_over(scrollbars.y.v, cursor.v)
               /\ Scrollbar_is_mouse_over(scrollbars.x.v, cursor.v))
        /\ ~(/\ ~call.pre.y_scroller_grabbed_at.some /\ state.y_scroller_grabbed_at.some
             /\ ~call.pre.x_scroller_grabbed_at.some /\ state.x_scroller_grabbed_at.some))

\* a press in the corner, on the vertical scrollbar at the height of the
\* horizontal one, grabs the vertical scroller alone
C31_Witness ==
    /\ PressedWithBothShown
    /\ call.child_status = "Ignored" /\ call.cursor.some
    /\ contains(ScrollbarsOf(call.pre).y.v.total_bounds, call.cursor.v)
    /\ Le(ScrollbarsOf(call.pre).x.v.total_bounds.y, call.cursor.v.y)
    /\ state.y_scroller_grabbed_at.some
    /\ ~state.x_scroller_grabbed_at.some


\* the length a scroller should have on a track of the given length
ScrollerLength(track_length, viewport_extent, content_extent) ==
    Max(Div(Mul(track_length, viewport_extent), content_extent), R(MinScrollerLength))

\* C32: the scroller's length along the scroll axis equals
\* max(track_length * viewport_extent / content_extent, 2) for every shown
\* scrollbar.
C32_ScrollerLength ==
    Let(ScrollbarsOf(state), LAMBDA scrollbars :
        /\ scrollbars.y.some
           => scrollbars.y.v.scroller.bounds.height =
                ScrollerLength(scrollbars.y.v.bounds.height, widget.bounds.height,
                               widget.content_bounds.height)
        /\ scrollbars.x.some
           => scrollbars.x.v.scroller.bounds.width =
                ScrollerLength(scrollbars.x.v.bounds.width, widget.bounds.width,
                               widget.content_bounds.width))

\* after a press both scrollbars are shown, the vertical scroller has the
\* minimum length on a shorter track and the horizontal one its proportional
\* length
C32_Witness ==
    /\ call.op = "on_event"
    /\ ScrollbarsOf(state).y.some /\ ScrollbarsOf(state).x.some
    /\ ScrollbarsOf(state).y.v.scroller.bounds.height = R(MinScrollerLength)
    /\ Lt(ScrollbarsOf(state).y.v.bounds.height, R(MinScrollerLength))
    /\ Lt(R(MinScrollerLength), ScrollbarsOf(state).x.v.scroller.bounds.width)


\* C33: Viewport::relative_offset yields NaN on an axis whenever the content
\* extent is less than or equal to the viewport extent on that axis, and
\* absolute / (content - viewport) otherwise.
C33_RelativeOffset ==
    probe.fn = "relative_offset"
    => /\ Le(probe.content, probe.viewport)
          => is_nan(probe.result.x) /\ is_nan(probe.result.y)
       /\ Lt(probe.viewport, probe.content)
          => probe.result.x = Div(Offset_absolute(probe.offset, probe.viewport,
                                                  probe.content),
                                  Sub(probe.content, probe.viewport))

\* C33, where the content is larger than the viewport: the relative offset
\* is absolute / (content - viewport) on both axes.
C33_RelativeOffsetWhereLarger ==
    (probe.fn = "relative_offset" /\ Lt(probe.viewport, probe.content))
    => /\ probe.result.x = Div(Offset_absolute(probe.offset, probe.viewport,
                                               probe.content),
                               Sub(probe.content, probe.viewport))
       /\ probe.result.y = probe.result.x

\* C33, where the content is as large as the viewport: the relative offset of
\* an offset that is not negative is NaN.
C33_RelativeOffsetWhereEqual ==
    (/\ probe.fn = "relative_offset" /\ probe.content = probe.viewport
     /\ Le(R(0), probe.offset.v))
    => is_nan(probe.result.x) /\ is_nan(probe.result.y)

\* C33, where the content is smaller than the viewport: the relative offset of
\* an offset that is not negative is zero, not NaN.
C33_RelativeOffsetWhereSmaller ==
    (/\ probe.fn = "relative_offset" /\ Lt(probe.content, probe.viewport)
     /\ Le(R(0), probe.offset.v))
    => probe.result.x = R(0) /\ probe.result.y = R(0)


\* the places of the selected option among the options
Occurrences(self) ==
    {i \in DOMAIN self.options : self.selected.some /\ self.options[i] = self.selected.v}

\* the messages a command-wheel movement of y lines should publish: on_select
\* of the neighbour of the selection at place k, of the first or last option
\* when nothing is selected, nothing at the end of the list
Neighbour(self, y) ==
    LET options == self.options
        k == CHOOSE i \in Occurrences(self) : TRUE
        target == IF Lt(y, R(0))
                  THEN IF self.selected.some THEN k + 1 ELSE 1
                  ELSE IF self.selected.some THEN k - 1 ELSE Len(options)
    IN  IF y # R(0) /\ target \in DOMAIN options
        THEN <<OnSelect(options[target])>>
        ELSE <<>>

\* a line wheel event delivered to a pick list whose selection, if any, is one
\* of its options
PickWheeled ==
    /\ call.op = "on_event" /\ call.event.kind = "WheelScrolled"
    /\ call.event.delta.unit = "Lines"
    /\ widget.selected.some => Cardinality(Occurrences(widget)) = 1

\* the command modifier is held, the cursor is over the closed pick list
PickWheelGate ==
    /\ call.pre.keyboard_modifiers.command
    /\ call.cursor.some /\ contains(widget.bounds, call.cursor.v)
    /\ ~call.pre.is_open

\* C34: with the command modifier held, the cursor over a closed pick list and
\* a line wheel event, y < 0 publishes on_select for the option immediately
\* after the current selection (the first option when nothing is selected),
\* y > 0 for the option immediately before it (the last option when nothing is
\* selected), nothing is published at that end of the list or for y = 0, and
\* the event is Captured; when the list is open, the modifier is not held or
\* the cursor is elsewhere the event is Ignored.
C34_CommandWheelSelects ==
    PickWheeled
    => IF PickWheelGate
       THEN /\ call.status = "Captured"
            /\ call.published = Neighbour(widget, call.event.delta.y)
       ELSE /\ call.status = "Ignored"
            /\ call.published = <<>>

\* a command-wheel movement down from the option in the middle selects the
\* last option
C34_Witness ==
    /\ PickWheeled /\ PickWheelGate
    /\ widget.options = <<"A", "B", "C">> /\ widget.selected = Some("B")
    /\ Lt(call.event.delta.y, R(0))
    /\ call.status = "Captured"
    /\ call.published = <<OnSelect("C")>>


\* the call was one of the programmatic operations snap_to and scroll_to
Operated == call.op \in {"snap_to", "scroll_to"}

\* C35: the programmatic operations snap_to and scroll_to change only offset_x
\* and offset_y: grab anchors, the touch anchor, the modifier snapshot and
\* last_notified are unchanged and on_scroll is not invoked, also when they
\* are applied while a scroller is grabbed.
C35_OperationsChangeOffsetsOnly ==
    Operated
    => /\ state = [call.pre EXCEPT !.offset_x = state.offset_x,
                                   !.offset_y = state.offset_y]
       /\ state.y_scroller_grabbed_at = call.pre.y_scroller_grabbed_at
       /\ state.x_scroller_grabbed_at = call.pre.x_scroller_grabbed_at
       /\ state.scroll_area_touched_at = call.pre.scroll_area_touched_at
       /\ state.keyboard_modifiers = call.pre.keyboard_modifiers
       /\ state.last_notified = call.pre.last_notified
       /\ call.published = 0

\* snap_to applied while the vertical scroller is grabbed and a viewport has
\* been notified: the offsets change and the grab stays
C35_Witness ==
    /\ call.op = "snap_to"
    /\ call.pre.y_scroller_grabbed_at.some
    /\ call.pre.last_notified.some
    /\ state.y_scroller_grabbed_at = call.pre.y_scroller_grabbed_at
    /\ state.offset_y # call.pre.offset_y
    /\ state.offset_x # call.pre.offset_x


\* a wheel or touch event delivered to the scrollable
WheelOrTouch ==
    call.op = "on_event" /\ call.event.kind \in {"WheelScrolled"} \cup TouchKinds

\* State::translation of the State in the widget's layout
TranslationOf(s) ==
    State_translation(s, widget.direction, widget.bounds, widget.content_bounds)

\* C36: on an axis that the Direction does not configure, the translation is
\* always 0 and no wheel or touch event changes that axis's stored offset,
\* read as an absolute offset, whatever the content and viewport extents are.
C36_UnconfiguredAxisInert ==
    /\ ~vertical(widget.direction).some
       => /\ TranslationOf(state).y = R(0)
          /\ WheelOrTouch => Offsets(state).y = Offsets(call.pre).y
    /\ ~horizontal(widget.direction).some
       => /\ TranslationOf(state).x = R(0)
          /\ WheelOrTouch => Offsets(state).x = Offsets(call.pre).x

\* C36, the translation alone: it is 0 on an axis the Direction does not
\* configure.
C36_UnconfiguredTranslationZero ==
    /\ ~vertical(widget.direction).some => TranslationOf(state).y = R(0)
    /\ ~horizontal(widget.direction).some => TranslationOf(state).x = R(0)

\* C36, where the content does not overflow on the axis the Direction does not
\* configure: no wheel or touch event changes the absolute offset of that
\* axis.
C36_UnconfiguredAxisInertWhereFitting ==
    /\ (/\ ~vertical(widget.direction).some /\ WheelOrTouch
        /\ Le(widget.content_bounds.height, widget.bounds.height))
       => Offsets(state).y = Offsets(call.pre).y
    /\ (/\ ~horizontal(widget.direction).some /\ WheelOrTouch
        /\ Le(widget.content_bounds.width, widget.bounds.width))
       => Offsets(state).x = Offsets(call.pre).x


(***************************************************************************)
(* Touches outside the scrollable: every finger event carries a position   *)
(* outside the viewport bounds of every widget explored.                   *)
(***************************************************************************)
OutsideCursors == {Available(Point(R(200), R(50))), Available(Point(R(200), R(54)))}

TouchOutside ==
    \E kind \in TouchKinds, cursor \in OutsideCursors, child_status \in ChildStatuses :
        Deliver(Plain(kind), cursor, child_status)

NextOutside == TouchOutside \/ Drain

SpecOutside == InitPress /\ [][NextOutside]_vars

\* a finger event the content ignored, at a position outside the viewport
TouchedOutside(kind) ==
    /\ call.op = "on_event" /\ call.event.kind = kind
    /\ call.child_status = "Ignored"
    /\ call.cursor.some /\ ~contains(widget.bounds, call.cursor.v)

\* C37: a finger press whose position is outside the scrollable's viewport
\* bounds does not record a touch anchor, does not change any offset through
\* later finger moves, and is not Captured by the scrollable.
C37_OutsidePressInert ==
    /\ TouchedOutside("FingerPressed")
       => /\ ~state.scroll_area_touched_at.some
          /\ call.status = "Ignored"
    /\ TouchedOutside("FingerMoved")
       => Offsets(state) = Offsets(call.pre)

\* C37, the press alone: no touch anchor is recorded.
C37_OutsidePressNoAnchor ==
    TouchedOutside("FingerPressed") => ~state.scroll_area_touched_at.some

\* C37, the press alone: the scrollable does not capture it.
C37_OutsidePressIgnored ==
    TouchedOutside("FingerPressed") => call.status = "Ignored"

\* C37, the moves alone: no offset changes.
C37_OutsideMoveKeepsOffsets ==
    TouchedOutside("FingerMoved") => Offsets(state) = Offsets(call.pre)


(***************************************************************************)
(* Stopwatch (examples/stopwatch).  Here `state` holds the Stopwatch,       *)
(* `widget` the runtime around it (the monotonic clock read by             *)
(* Instant::now and the Tick messages the subscription has produced and    *)
(* update has not yet received), and `call` the last message given to      *)
(* update with the Stopwatch before it.  Instants and Durations are        *)
(* counted in periods of the subscription.                                 *)
(***************************************************************************)
\* the last instant of the clock
MaxClock == 4

\* the most Tick messages in flight
MaxQueue == 2

Idle == [kind |-> "Idle", last_tick |-> 0]

Ticking(last_tick) == [kind |-> "Ticking", last_tick |-> last_tick]

Toggle == [kind |-> "Toggle", now |-> 0]

Reset == [kind |-> "Reset", now |-> 0]

Tick(now) == [kind |-> "Tick", now |-> now]

Stopwatch_new == [duration |-> 0, state |-> Idle]

\* Instant - Instant: the time elapsed from the earlier to self, zero when the
\* earlier instant is later than self
Instant_sub(self, earlier) == IF earlier <= self THEN self - earlier ELSE 0

\* mutant: a Tick is also counted while Idle, from the instant last kept
update_counting_idle(self, message, instant_now) ==
    CASE message.kind = "Toggle" ->
            IF self.state.kind = "Idle"
            THEN [self EXCEPT !.state = Ticking(instant_now)]
            ELSE [self EXCEPT !.state = Idle]
      [] message.kind = "Tick" ->
            [self EXCEPT !.duration = @ + Instant_sub(message.now, self.state.last_tick),
                         !.state.last_tick = message.now]
      [] message.kind = "Reset" -> [self EXCEPT !.duration = 0]

\* instant_now is what Instant::now() returns during the call
update(self, message, instant_now) ==
    CASE message.kind = "Toggle" ->
            IF self.state.kind = "Idle"
            THEN [self EXCEPT !.state = Ticking(instant_now)]
            ELSE [self EXCEPT !.state = Idle]
      [] message.kind = "Tick" ->
            IF self.state.kind = "Ticking"
            THEN [self EXCEPT !.duration = @ + Instant_sub(message.now,
                                                           self.state.last_tick),
                              !.state = Ticking(message.now)]
            ELSE self
      [] message.kind = "Reset" -> [self EXCEPT !.duration = 0]

\* whether the subscription produces Tick messages
subscription(self) == self.state.kind = "Ticking"

Runtime(clock, queue) == [name |-> "Stopwatch", clock |-> clock, queue |-> queue]

WatchCall(message, pre) == [op |-> message.kind, now |-> message.now, pre |-> pre]

InitWatch ==
    /\ widget = Runtime(0, <<>>)
    /\ state = Stopwatch_new
    /\ call = [op |-> "none", now |-> 0, pre |-> Stopwatch_new]
    /\ prev = Taken(NoCall)
    /\ probe = NoProbe

\* time passes
Advance ==
    /\ widget.clock < MaxClock
    /\ widget' = [widget EXCEPT !.clock = @ + 1]
    /\ UNCHANGED <<state, call, prev, probe>>

\* time::every fires: a Tick carrying the current instant is queued
Emit ==
    /\ subscription(state)
    /\ Len(widget.queue) < MaxQueue
    /\ widget' = [widget EXCEPT !.queue = Append(@, Tick(widget.clock))]
    /\ UNCHANGED <<state, call, prev, probe>>

\* the button or the hotkey toggles the stopwatch
WatchToggle ==
    /\ state' = update(state, Toggle, widget.clock)
    /\ call' = WatchCall(Toggle, state)
    /\ UNCHANGED <<widget, prev, probe>>

WatchReset ==
    /\ state' = update(state, Reset, widget.clock)
    /\ call' = WatchCall(Reset, state)
    /\ UNCHANGED <<widget, prev, probe>>

\* update receives the oldest Tick in flight, whatever the state is by then
WatchTick ==
    /\ widget.queue # <<>>
    /\ state' = update(state, Head(widget.queue), widget.clock)
    /\ call' = WatchCall(Head(widget.queue), state)
    /\ widget' = [widget EXCEPT !.queue = Tail(@)]
    /\ UNCHANGED <<prev, probe>>

NextWatch == Advance \/ Emit \/ WatchToggle \/ WatchReset \/ WatchTick

SpecWatch == InitWatch /\ [][NextWatch]_vars

\* C38: in the stopwatch, a Tick received while the state is Idle leaves
\* duration and state unchanged; duration changes only by a Tick while
\* Ticking, which adds now - last_tick and sets last_tick to now, or by Reset,
\* which sets it to zero without changing Idle/Ticking.
C38_TickOnlyWhileTicking ==
    /\ (call.op = "Tick" /\ call.pre.state.kind = "Idle") => state = call.pre
    /\ (call.op = "Tick" /\ call.pre.state.kind = "Ticking")
       => /\ state.duration = call.pre.duration
                + (IF call.now >= call.pre.state.last_tick
                   THEN call.now - call.pre.state.last_tick ELSE 0)
          /\ state.state = Ticking(call.now)
    /\ call.op = "Reset" => (state.duration = 0 /\ state.state = call.pre.state)
    /\ call.op = "Toggle" => state.duration = call.pre.duration
    /\ call.op = "none" => state = Stopwatch_new

\* C38: across every step, duration changes only in a step that gives update
\* a Tick while Ticking or a Reset.
C38_DurationFrame ==
    [][state'.duration # state.duration
       => \/ call'.op = "Tick" /\ state.state.kind = "Ticking"
          \/ call'.op = "Reset"]_vars

\* a Tick still in flight when Toggle stopped the watch is received while
\* Idle, after time was counted
C38_Witness ==
    /\ call.op = "Tick" /\ call.pre.state.kind = "Idle"
    /\ call.pre.duration > 0
    /\ state = call.pre

=============================================================================
